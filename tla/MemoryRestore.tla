---------------------------- MODULE MemoryRestore ----------------------------
(***************************************************************************)
(* Restoring a task from an immutable snapshot (memory/restore.py): direct *)
(* and intent-based previews, and their confirmation or cancellation.  The *)
(* matcher and the artifact store are asynchronous ports, each answer of   *)
(* which is a step; the decision itself is one.                            *)
(***************************************************************************)
EXTENDS Refusals, FiniteSets

CONSTANTS
  Snapshots,   \* snapshot ids
  Artifacts,   \* artifacts a snapshot may refer to
  Shapes,      \* [scope, supported, artifacts]: the snapshots that are created
  Callers,     \* [scope, permissions] of the calls
  Calls,       \* calls under way at a time
  Rankings,    \* sequences of [snapshot, score], percent: what the matcher answers
  MaxTime      \* bound of the clock

VARIABLES
  restoreTime,
  snapshots,   \* snapshot -> its shape, or NoShape
  present,     \* artifacts the store has
  call,        \* call -> what it is at
  shown,       \* previews handed out: [snapshot, created]
  decided,     \* _decisions: [preview, outcome]
  answered     \* what callers were told: [preview, outcome]

restoreVars == <<restoreTime, snapshots, present, call, shown, decided, answered>>

NoShape == [scope |-> "none", supported |-> FALSE, artifacts |-> {}]
NoCall == [kind |-> "none", snapshot |-> 0, created |-> 0, scope |-> "none", left |-> {}]

AuthorizeError(caller, action) ==
  FirstRefusal(<< <<action \notin caller.permissions, "RESTORE_PERMISSION_DENIED">> >>)

\* _load_visible
LoadError(scope, n) ==
  FirstRefusal(<<
    <<snapshots[n] = NoShape, "SNAPSHOT_NOT_FOUND">>,
    <<snapshots[n].scope # scope, "RESTORE_SCOPE_DENIED">> >>)

\* create_snapshot and insert_snapshot
CreateSnapshot(caller, n, shape) ==
  /\ AuthorizeError(caller, "snapshot") = None
  /\ caller.scope = shape.scope
  /\ snapshots[n] = NoShape
  /\ snapshots' = [snapshots EXCEPT ![n] = shape]
  /\ UNCHANGED <<restoreTime, present, call, shown, decided, answered>>

-----------------------------------------------------------------------------
(* Calls                                                                   *)

\* The first lines of preview_direct and confirm, and the start of _validate_restore.
Begin(c, caller, kind, n, created) ==
  /\ call[c] = NoCall
  /\ AuthorizeError(caller, "restore") = None
  /\ LoadError(caller.scope, n) = None
  /\ snapshots[n].supported
  /\ call' = [call EXCEPT ![c] = [kind |-> kind, snapshot |-> n, created |-> created,
                                  scope |-> caller.scope, left |-> snapshots[n].artifacts]]
  /\ UNCHANGED <<restoreTime, snapshots, present, shown, decided, answered>>

PreviewDirect(c, caller, n) == Begin(c, caller, "preview", n, restoreTime)

\* confirm builds the preview anew from the snapshot: one that differs is refused.
Confirm(c, caller, p) == Begin(c, caller, "confirm", p.snapshot, p.created)

\* preview_intent waits for the matcher.
PreviewIntent(c, caller) ==
  /\ call[c] = NoCall
  /\ AuthorizeError(caller, "restore") = None
  /\ call' = [call EXCEPT ![c] = [NoCall EXCEPT !.kind = "search", !.scope = caller.scope,
                                                !.created = restoreTime]]
  /\ UNCHANGED <<restoreTime, snapshots, present, shown, decided, answered>>

Ordered(ranking) ==
  \A i, j \in DOMAIN ranking : i < j => ranking[i].score >= ranking[j].score

\* A score of 0.90 and a lead of 0.12 select the snapshot.
Selects(ranking) ==
  /\ ranking # <<>>
  /\ ranking[1].score >= 90
  /\ ranking[1].score - (IF Len(ranking) > 1 THEN ranking[2].score ELSE 0) >= 12

\* The answer of the matcher; anything but a clear match is left to the user.
Matched(c, ranking) ==
  LET n == ranking[1].snapshot IN
  /\ call[c].kind = "search"
  /\ IF /\ Ordered(ranking) /\ Selects(ranking)
        /\ LoadError(call[c].scope, n) = None
        /\ snapshots[n].supported
     THEN call' = [call EXCEPT ![c].kind = "preview", ![c].snapshot = n,
                               ![c].left = snapshots[n].artifacts]
     ELSE call' = [call EXCEPT ![c] = NoCall]
  /\ UNCHANGED <<restoreTime, snapshots, present, shown, decided, answered>>

\* One await of _validate_restore; a missing artifact ends the call.
CheckArtifact(c, a) ==
  /\ a \in call[c].left
  /\ call' = [call EXCEPT ![c] = IF a \in present THEN [@ EXCEPT !.left = @ \ {a}] ELSE NoCall]
  /\ UNCHANGED <<restoreTime, snapshots, present, shown, decided, answered>>

Preview(c) == [snapshot |-> call[c].snapshot, created |-> call[c].created]

ReturnPreview(c) ==
  /\ call[c].kind = "preview" /\ call[c].left = {}
  /\ shown' = shown \cup {Preview(c)}
  /\ call' = [call EXCEPT ![c] = NoCall]
  /\ UNCHANGED <<restoreTime, snapshots, present, decided, answered>>

\* Mutant: the newest decision replaces the one before it.
DecideOver(p, outcome) ==
  /\ decided' = {x \in decided : x.preview # p} \cup {[preview |-> p, outcome |-> outcome]}
  /\ answered' = answered \cup {[preview |-> p, outcome |-> outcome]}

\* record_decision: another outcome than the recorded one is refused.
Decide(p, outcome) ==
  IF \E x \in decided : x.preview = p /\ x.outcome # outcome
  THEN UNCHANGED <<decided, answered>>
  ELSE /\ decided' = decided \cup {[preview |-> p, outcome |-> outcome]}
       /\ answered' = answered \cup {[preview |-> p, outcome |-> outcome]}

ReturnBranch(c) ==
  /\ call[c].kind = "confirm" /\ call[c].left = {}
  /\ Decide(Preview(c), "CONFIRMED")
  /\ call' = [call EXCEPT ![c] = NoCall]
  /\ UNCHANGED <<restoreTime, snapshots, present, shown>>

\* cancel awaits nothing and checks neither version nor artifacts.
Cancel(caller, p) ==
  /\ AuthorizeError(caller, "restore") = None
  /\ LoadError(caller.scope, p.snapshot) = None
  /\ Decide(p, "CANCELLED")
  /\ UNCHANGED <<restoreTime, snapshots, present, call, shown>>

-----------------------------------------------------------------------------
\* The artifact store loses and regains an artifact.
Toggle(a) ==
  /\ present' = IF a \in present THEN present \ {a} ELSE present \cup {a}
  /\ UNCHANGED <<restoreTime, snapshots, call, shown, decided, answered>>

Tick ==
  /\ restoreTime < MaxTime
  /\ restoreTime' = restoreTime + 1
  /\ UNCHANGED <<snapshots, present, call, shown, decided, answered>>

Init ==
  /\ restoreTime = 1
  /\ snapshots = [n \in Snapshots |-> NoShape]
  /\ present = Artifacts
  /\ call = [c \in Calls |-> NoCall]
  /\ shown = {} /\ decided = {} /\ answered = {}

Next ==
  \/ Tick
  \/ \E a \in Artifacts : Toggle(a)
  \/ \E caller \in Callers :
       \/ \E n \in Snapshots, shape \in Shapes : CreateSnapshot(caller, n, shape)
       \/ \E p \in shown : Cancel(caller, p)
       \/ \E c \in Calls :
            \/ PreviewIntent(c, caller)
            \/ \E n \in Snapshots : PreviewDirect(c, caller, n)
            \/ \E p \in shown : Confirm(c, caller, p)
  \/ \E c \in Calls :
       \/ \E ranking \in Rankings : Matched(c, ranking)
       \/ \E a \in Artifacts : CheckArtifact(c, a)
       \/ ReturnPreview(c) \/ ReturnBranch(c)

Spec == Init /\ [][Next]_restoreVars

\* No preview is told to be confirmed, with a branch, and told to be cancelled:
\* a confirmation that waits for the artifact store meets the cancellation.
RestoreDecidedOnce ==
  \A x, y \in answered : x.preview = y.preview => x.outcome = y.outcome
==============================================================================
