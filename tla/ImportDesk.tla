----------------------------- MODULE ImportDesk -----------------------------
(***************************************************************************)
(* The office's upload, preview and commit of an offerings file            *)
(* (ops/import_staging.py, web/ifo.py): the bytes in storage, the staging  *)
(* row that owns them, and the token in the operator's session.  Two tabs  *)
(* share the session: each request works on the copy it loaded, and writes *)
(* the token back when it changed it.  A worker may die between any two    *)
(* writes of a request.                                                    *)
(***************************************************************************)
EXTENDS Integers, Sequences, FiniteSets

CONSTANTS ImportTabs,          \* requests in flight
          Tokens,        \* upload tokens, never reused
          MaxImportCuts

ASSUME ImportConstants == MaxImportCuts \in Nat

NoToken == "no token"

VARIABLES
  stagings,      \* ImportStaging rows by token: consumed, and past STAGING_TTL_HOURS
  storage,       \* tokens whose file is in storage
  sessionToken,  \* the token in the session
  upload,        \* per tab: the request's step, the token it resolved, the session's it loaded
  imports,       \* the tokens whose file was imported, in order
  importCuts

importVars == <<stagings, storage, sessionToken, upload, imports, importCuts>>

NoUpload == [step |-> "idle", token |-> NoToken, loaded |-> NoToken]

ImportInit ==
  /\ stagings = <<>> /\ storage = {} /\ sessionToken = NoToken
  /\ upload = [t \in ImportTabs |-> NoUpload]
  /\ imports = <<>> /\ importCuts = 0

-----------------------------------------------------------------------------
StagedRows == DOMAIN stagings
FreshToken(u) == u \in Tokens /\ u \notin StagedRows /\ u \notin storage /\ u \notin {imports[i] : i \in DOMAIN imports}
            /\ sessionToken # u /\ \A t \in ImportTabs : u \notin {upload[t].token, upload[t].loaded}
WithoutRow(u) == [x \in StagedRows \ {u} |-> stagings[x]]

\* Mutant: an upload already consumed is found again.
resolve_staged_any(u) == IF u \in StagedRows THEN u ELSE NoToken

\* The session's upload, unless it was consumed or is gone.
resolve_staged(u) == IF u \in StagedRows /\ ~stagings[u].consumed THEN u ELSE NoToken

AtStep(t, step) == upload[t].step = step
GotoStep(t, step, u) == upload' = [upload EXCEPT ![t].step = step, ![t].token = u]
EndRequest(t) == upload' = [upload EXCEPT ![t] = NoUpload]
RestKept == UNCHANGED importCuts

\* A request loads the session, and resolves the staged upload, a commit later under
\* its lock.  A preview whose target is no Draft changes nothing.
begin_request(t, step) ==
  /\ AtStep(t, "idle")
  /\ upload' = [upload EXCEPT ![t] = [step |-> step, loaded |-> sessionToken,
       token |-> IF step = "commit" THEN NoToken ELSE resolve_staged(sessionToken)]]
  /\ UNCHANGED <<stagings, storage, sessionToken, imports>> /\ RestKept

\* discard_staged: the file, then the row.
discard_file(t, step, next) ==
  /\ AtStep(t, step) /\ upload[t].token # NoToken
  /\ storage' = storage \ {upload[t].token}
  /\ GotoStep(t, next, upload[t].token)
  /\ UNCHANGED <<stagings, sessionToken, imports>> /\ RestKept

\* import_preview: the previous upload is discarded, a new one stored and entered.
preview_discard(t) == discard_file(t, "preview", "preview_row")
preview_discard_row(t) ==
  /\ AtStep(t, "preview_row")
  /\ stagings' = WithoutRow(upload[t].token)
  /\ GotoStep(t, "upload", NoToken)
  /\ UNCHANGED <<storage, sessionToken, imports>> /\ RestKept

\* The file goes to storage before its row exists.  A request that found nothing to
\* discard has not touched the session.
stage_file(t, u) ==
  /\ AtStep(t, "upload") \/ (AtStep(t, "preview") /\ upload[t].token = NoToken)
  /\ FreshToken(u)
  /\ storage' = storage \union {u}
  /\ upload' = [upload EXCEPT ![t] = [step |-> "enter", token |-> u,
                                loaded |-> IF AtStep(t, "upload") THEN upload[t].loaded ELSE NoToken]]
  /\ UNCHANGED <<stagings, sessionToken, imports>> /\ RestKept

stage_row(t) ==
  /\ AtStep(t, "enter")
  /\ stagings' = [x \in StagedRows \union {upload[t].token} |->
       IF x = upload[t].token THEN [consumed |-> FALSE, old |-> FALSE] ELSE stagings[x]]
  /\ GotoStep(t, "report", upload[t].token)
  /\ UNCHANGED <<storage, sessionToken, imports>> /\ RestKept

\* A readable file keeps its token in the session; an unreadable one is discarded.
preview_done(t) ==
  /\ AtStep(t, "report")
  /\ sessionToken' = upload[t].token
  /\ EndRequest(t)
  /\ UNCHANGED <<stagings, storage, imports>> /\ RestKept

preview_unreadable(t) == discard_file(t, "report", "drop_row")

\* Mutant: the operator is told and the bytes stay.
commit_clean_kept(t) ==
  /\ AtStep(t, "committed")
  /\ sessionToken' = NoToken
  /\ EndRequest(t)
  /\ UNCHANGED <<stagings, storage, imports>> /\ RestKept

\* import_commit: in one transaction, with the row and the term locked, the file is
\* imported and the row consumed; then the file goes, and the session's token.  A term
\* that has left Draft since, or an import that raises, rolls everything back.
import_commit(t) ==
  LET u == resolve_staged(upload[t].loaded)
  IN  /\ AtStep(t, "commit")
      /\ \/ EndRequest(t) /\ UNCHANGED <<stagings, imports>>
         \/ /\ u # NoToken /\ u \in storage
            /\ stagings' = [stagings EXCEPT ![u].consumed = TRUE]
            /\ imports' = Append(imports, u)
            /\ upload' = [upload EXCEPT ![t] = [step |-> "committed", token |-> u, loaded |-> NoToken]]
      /\ UNCHANGED <<storage, sessionToken>> /\ RestKept

commit_clean(t) ==
  /\ AtStep(t, "committed")
  /\ storage' = storage \ {upload[t].token}
  /\ sessionToken' = NoToken
  /\ EndRequest(t)
  /\ UNCHANGED <<stagings, imports>> /\ RestKept

\* import_discard, and the end of a preview of an unreadable file.  A request that took
\* a token out of the session it had loaded writes that session back, without it.
SaveSession(t) == sessionToken' = IF upload[t].loaded # NoToken THEN NoToken ELSE sessionToken

discard_step(t) == discard_file(t, "discard", "drop_row")
drop_row(t) ==
  /\ AtStep(t, "drop_row")
  /\ stagings' = WithoutRow(upload[t].token)
  /\ SaveSession(t)
  /\ EndRequest(t)
  /\ UNCHANGED <<storage, imports>> /\ RestKept
discard_nothing(t) ==
  /\ AtStep(t, "discard") /\ upload[t].token = NoToken
  /\ SaveSession(t)
  /\ EndRequest(t)
  /\ UNCHANGED <<stagings, storage, imports>> /\ RestKept

\* import_page begins by sweeping the uploads nobody committed.
StaleUpload(u) == u \in StagedRows /\ ~stagings[u].consumed /\ stagings[u].old

sweep_read(t, u) ==
  /\ AtStep(t, "idle") /\ StaleUpload(u)
  /\ upload' = [upload EXCEPT ![t] = [step |-> "sweep", token |-> u, loaded |-> NoToken]]
  /\ UNCHANGED <<stagings, storage, sessionToken, imports>> /\ RestKept
sweep_file(t) == discard_file(t, "sweep", "swept")
sweep_row(t) ==
  /\ AtStep(t, "swept")
  /\ stagings' = WithoutRow(upload[t].token)
  /\ EndRequest(t)
  /\ UNCHANGED <<storage, sessionToken, imports>> /\ RestKept

-----------------------------------------------------------------------------
\* The worker serving a request dies.
import_cut(t) ==
  /\ ~AtStep(t, "idle") /\ importCuts < MaxImportCuts
  /\ importCuts' = importCuts + 1
  /\ EndRequest(t)
  /\ UNCHANGED <<stagings, storage, sessionToken, imports>>

\* Hours pass: every upload there is has waited too long.
hours_pass ==
  /\ stagings' = [u \in StagedRows |-> [stagings[u] EXCEPT !.old = TRUE]]
  /\ UNCHANGED <<storage, sessionToken, upload, imports, importCuts>>

RequestStep(t) ==
  \/ preview_discard(t) \/ preview_discard_row(t) \/ \E u \in Tokens : stage_file(t, u)
  \/ stage_row(t) \/ preview_done(t) \/ preview_unreadable(t)
  \/ import_commit(t) \/ commit_clean(t) \/ discard_step(t) \/ drop_row(t) \/ discard_nothing(t)
  \/ sweep_file(t) \/ sweep_row(t)

ImportNext ==
  \/ \E t \in ImportTabs : \/ \E step \in {"preview", "commit", "discard"} : begin_request(t, step)
                     \/ \E u \in Tokens : sweep_read(t, u)
                     \/ RequestStep(t) \/ import_cut(t)
  \/ hours_pass

-----------------------------------------------------------------------------
\* However often Commit is pressed and whatever the other tab does, a file is imported
\* at most once.
ImportedOnce == \A i, j \in DOMAIN imports : imports[i] = imports[j] => i = j

\* Storage does not fill up with leftovers: when no request is in flight, every file
\* belongs to an upload still waiting, except one for each worker that died.
NoLeftoverFiles ==
  (\A t \in ImportTabs : AtStep(t, "idle")) =>
    Cardinality({u \in storage : u \notin StagedRows \/ stagings[u].consumed}) <= importCuts
=============================================================================
