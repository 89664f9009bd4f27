---------------------------- MODULE ThreadOptions ----------------------------
(***************************************************************************)
(* What the high-level API sends for a thread and a turn                   *)
(* (crates/sdk/src/api.rs): option merging, request parameters, the input  *)
(* of a turn, and the choice of the latest thread.                         *)
(*                                                                         *)
(* A set of options is a function on the fields that are set.  A field has *)
(* the name it has on the wire: working_directory is "cwd", sandbox_mode   *)
(* "sandbox", model_reasoning_effort "effort", and so on.                  *)
(***************************************************************************)
EXTENDS Naturals, SequencesExt

None == "none"

\* insert_common_extras
CommonExtras == {"serviceTier", "skipGitRepoCheck", "webSearchMode", "webSearchEnabled",
                 "networkAccessEnabled", "additionalDirectories", "collaborationMode"}

\* ResolvedOptions: what a turn inherits from its thread
ResolvedFields == CommonExtras \cup
  {"model", "modelProvider", "cwd", "effort", "summary", "personality",
   "approvalPolicy", "sandboxPolicy"}

ThreadFields == ResolvedFields \cup
  {"sandbox", "baseInstructions", "developerInstructions", "ephemeral", "config",
   "dynamicTools", "experimentalRawEvents", "persistExtendedHistory"}

\* "extra" is itself a set of parameters.
TurnFields == ResolvedFields \cup {"outputSchema", "extra"}

\* The fields of options among some, under the same names
Only(options, fields) == [f \in DOMAIN options \cap fields |-> options[f]]

\* Two sets of parameters, the second over the first
Over(params, others) ==
  [f \in DOMAIN params \cup DOMAIN others |->
     IF f \in DOMAIN others THEN others[f] ELSE params[f]]

\* Variant: the turn's fields alone are sent.
MergeTurnOnly(options, turn) == Only(turn, ResolvedFields)

\* ResolvedOptions::merge: a field set for the turn wins.
Merge(options, turn) == Over(Only(options, ResolvedFields), Only(turn, ResolvedFields))

\* What serde writes: the flattened extra comes last.
Params(typed, extra) == Over(typed, extra)

StartExtras == CommonExtras \cup {"config", "dynamicTools", "experimentalRawEvents",
                                  "persistExtendedHistory"}

ThreadStartParams(options) ==
  Params(Only(options, ThreadFields \ StartExtras), Only(options, StartExtras))

ResumeExtras == CommonExtras \cup {"sandboxPolicy", "effort", "summary", "ephemeral",
                                   "dynamicTools", "experimentalRawEvents"}

ThreadResumeParams(thread, options) ==
  Params(Over([threadId |-> thread], Only(options, ThreadFields \ ResumeExtras)),
         Only(options, ResumeExtras))

\* normalize_input: the texts are joined before the images.
NormalizeInput(items) ==
  LET texts  == SelectSeq(items, LAMBDA i : i.type = "text")
      images == SelectSeq(items, LAMBDA i : i.type = "localImage")
  IN  IF texts = <<>> THEN images ELSE <<[type |-> "text", parts |-> texts]>> \o images

ExtraOf(turn) == IF "extra" \in DOMAIN turn THEN turn.extra ELSE <<>>

TurnStartParams(thread, input, options, turn) ==
  LET merged == Merge(options, turn)
      typed  == Over(Only(merged, ResolvedFields \ CommonExtras), Only(turn, {"outputSchema"}))
  IN  Params(Over([threadId |-> thread, input |-> NormalizeInput(input)], typed),
             Over(Only(merged, CommonExtras), ExtraOf(turn)))

-----------------------------------------------------------------------------
(* The latest thread.  A summary has an id, its cwd and two times, NoTime    *)
(* where there is none or it is no number.                                 *)

NoTime == 0

\* thread_recency_score
Recency(t) == IF t.updatedAt # NoTime THEN t.updatedAt ELSE t.createdAt

Matches(t, cwd) == cwd = None \/ t.cwd = cwd

\* Variant: an entry without a time gives way to any that has one.
NewerThanNone(selected, t) == selected = <<>> \/ Recency(t) > Recency(selected[1])

\* A later match replaces the selected one if both have a time and its is newer.
Newer(selected, t) ==
  selected = <<>> \/ (/\ Recency(selected[1]) # NoTime
                     /\ Recency(t) > Recency(selected[1]))

\* select_latest_thread_id: none or one of the summaries listed
SelectLatest(threads, cwd) ==
  LET selected[k \in Nat] ==
        IF k = 0 THEN <<>>
        ELSE IF Matches(threads[k], cwd) /\ Newer(selected[k - 1], threads[k]) THEN <<threads[k]>>
        ELSE selected[k - 1]
  IN  selected[Len(threads)]
=============================================================================
