---------------------------- MODULE DataLifecycle ----------------------------
(***************************************************************************)
(* DataLifecycleService (lifecycle/service.py): registration, export,      *)
(* previewed deletion, legal holds and cryptographic erasure.  A call runs *)
(* without a suspension; between two calls of one purpose (preview and     *)
(* delete, apply and release) anything else may happen, and approvals may  *)
(* be given, run out or be used again.  A preview is a value the caller     *)
(* holds and hands back: nothing ties its fields to its hash.               *)
(***************************************************************************)
EXTENDS Refusals, FiniteSets

CONSTANTS
  Objects,       \* object ids
  Accesses,      \* callers: [scope, permissions, clearance]
  Registrations, \* [type, class, days, key]: what register is called with
  DefaultDays, AuditDays, MaxDays,  \* retention (365, 2555 and 3650 days)
  PreviewTargets, \* the object sets a preview is asked for
  Grants,        \* [scope, outcome, brief]: what the approval service answers
  MaxApprovals, MaxPreviews,  \* bounds on the approvals and previews of a behaviour
  MaxTime        \* bound of the clock, in days

VARIABLES
  now,
  objects,     \* id -> governed object
  holds,       \* [object, approval, scope, state]
  previews,    \* deletion previews handed out
  completed,   \* completed_previews: [sha, objects]
  approvals,   \* approval records a caller can present
  removal,     \* object -> the DELETE or CRYPTO_ERASE event that names it
  keysRevoked \* objects whose own key is revoked

lifecycleVars == <<now, objects, holds, previews, completed, approvals, removal, keysRevoked>>

Absent == [state |-> "ABSENT", scope |-> "none", type |-> "none", class |-> 0, until |-> 0,
           key |-> "none"]

Level == [PUBLIC |-> 0, INTERNAL |-> 1, CONFIDENTIAL |-> 2, RESTRICTED |-> 3]

NoEvent == [action |-> "none", objects |-> {}, approval |-> 0]

\* _event appends to the lifecycle events; kept is the one of an object's removal.
Event(action, targets, approval) ==
  removal' = [o \in Objects |->
    IF o \in targets /\ action \in {"DELETE", "CRYPTO_ERASE"}
    THEN [action |-> action, objects |-> targets, approval |-> approval] ELSE removal[o]]

-----------------------------------------------------------------------------
(* Shared checks                                                           *)

AuthorizeError(access, action) ==
  FirstRefusal(<< <<action \notin access.permissions, "LIFECYCLE_PERMISSION_DENIED">> >>)

\* _load_active; an unknown object and one of another scope look the same.
LoadError(access, targets) ==
  FirstRefusal(<<
    <<targets = {}, "LIFECYCLE_TARGET_INVALID">>,
    <<\E o \in targets : objects[o].scope # access.scope, "LIFECYCLE_SCOPE_DENIED">>,
    <<\E o \in targets : objects[o].class > Level[access.clearance],
      "LIFECYCLE_CLASSIFICATION_DENIED">>,
    <<\E o \in targets : objects[o].state # "ACTIVE", "LIFECYCLE_OBJECT_NOT_ACTIVE">> >>)

Held(o) == \E h \in holds : h.object = o /\ h.state = "ACTIVE"

\* _deny_holds
HoldError(targets) ==
  FirstRefusal(<< <<\E o \in targets : Held(o), "LIFECYCLE_LEGAL_HOLD_ACTIVE">> >>)

\* What an approval was given for: an object, a preview (objects, mode, time) or
\* a hold (its object and the approval that made it).  The ids of the objects
\* stand for their hashes, as content never changes under an id.
OfObject(o) == [kind |-> "object", objects |-> {o}, force |-> FALSE, mark |-> 0]
OfPreview(targets, force) ==
  [kind |-> "preview", objects |-> targets, force |-> force, mark |-> now]
OfHold(h) == [kind |-> "hold", objects |-> {h.object}, force |-> FALSE, mark |-> h.approval]

InForce(approval) ==
  /\ approval.outcome = "APPROVED"
  /\ approval.decided <= now
  /\ approval.expires = 0 \/ now < approval.expires

\* _validate_approval
ApprovalError(approval, access, action, target) ==
  FirstRefusal(<<
    << \/ approval.scope # access.scope
       \/ approval.action # action
       \/ approval.target # target
       \/ ~InForce(approval),
       "LIFECYCLE_APPROVAL_INVALID">> >>)

-----------------------------------------------------------------------------
(* Operations                                                              *)

Retention(r) ==
  IF r.days # 0 THEN r.days ELSE IF r.type = "audit" THEN AuditDays ELSE DefaultDays

RegisterError(access, o, r) ==
  IF AuthorizeError(access, "register") # None THEN AuthorizeError(access, "register")
  ELSE FirstRefusal(<<
         <<objects[o] # Absent, "LIFECYCLE_OBJECT_CONFLICT">>,
         <<Retention(r) > MaxDays, "LIFECYCLE_RETENTION_INVALID">> >>)

Register(access, o, r) ==
  /\ RegisterError(access, o, r) = None
  /\ objects' = [objects EXCEPT ![o] =
       [state |-> "ACTIVE", scope |-> access.scope, type |-> r.type, class |-> Level[r.class],
        until |-> now + Retention(r), key |-> r.key]]
  /\ Event("REGISTER", {o}, 0)
  /\ UNCHANGED <<now, holds, previews, completed, approvals, keysRevoked>>

\* export returns the active objects the caller may see; it changes nothing but
\* the events.
Export(access, targets) ==
  /\ AuthorizeError(access, "export") = None
  /\ LoadError(access, targets) = None
  /\ Event("EXPORT", targets, 0)
  /\ UNCHANGED <<now, objects, holds, previews, completed, approvals, keysRevoked>>

\* preview_delete: the hash of the preview binds objects, mode and time.
PreviewError(access, targets, force) ==
  LET load == LoadError(access, targets)
      hold == HoldError(targets)
  IN IF AuthorizeError(access, "delete") # None THEN AuthorizeError(access, "delete")
     ELSE IF load # None THEN load
     ELSE IF hold # None THEN hold
     ELSE FirstRefusal(<< <<~force /\ \E o \in targets : now < objects[o].until,
                            "LIFECYCLE_RETENTION_ACTIVE">> >>)

PreviewDelete(access, targets, force) ==
  /\ PreviewError(access, targets, force) = None
  /\ Cardinality(previews) < MaxPreviews
  /\ previews' = previews \cup {[scope |-> access.scope, objects |-> targets, force |-> force,
                                 sha |-> OfPreview(targets, force)]}
  /\ UNCHANGED <<now, objects, holds, completed, approvals, removal, keysRevoked>>

DeleteAction(p) == IF p.force THEN "data.delete.force" ELSE "data.delete"

\* The checks of delete before it looks at the objects.
DeleteRequestError(access, p, approval) ==
  IF AuthorizeError(access, "delete") # None THEN AuthorizeError(access, "delete")
  ELSE IF access.scope # p.scope THEN "LIFECYCLE_SCOPE_DENIED"
  ELSE ApprovalError(approval, access, DeleteAction(p), p.sha)

\* Mutant: relies on the holds the preview was checked against.
DeleteAsPreviewed(access, p, approval) ==
  /\ DeleteRequestError(access, p, approval) = None
  /\ \A c \in completed : c.sha # p.sha
  /\ LoadError(access, p.objects) = None
  /\ objects' = [o \in Objects |-> IF o \in p.objects THEN [objects[o] EXCEPT !.state = "DELETED"]
                                   ELSE objects[o]]
  /\ completed' = completed \cup {[sha |-> p.sha, objects |-> p.objects]}
  /\ Event("DELETE", p.objects, approval.id)
  /\ UNCHANGED <<now, holds, previews, approvals, keysRevoked>>

\* What a caller may present: a preview that was handed out, or a copy of one
\* with another scope, other objects (and their present hashes) or another mode.
Presented(access) ==
  {[q EXCEPT !.scope = scope, !.objects = targets, !.force = force] :
    q \in previews, scope \in {access.scope} \cup {x.scope : x \in previews},
    targets \in PreviewTargets, force \in BOOLEAN}

\* delete of the objects the preview names; preview_sha256 is compared with the
\* approval and never computed again.  A completed hash answers with its tombstones.
Delete(access, p, approval) ==
  /\ DeleteRequestError(access, p, approval) = None
  /\ \A c \in completed : c.sha # p.sha
  /\ LoadError(access, p.objects) = None
  /\ HoldError(p.objects) = None
  /\ objects' = [o \in Objects |-> IF o \in p.objects THEN [objects[o] EXCEPT !.state = "DELETED"]
                                   ELSE objects[o]]
  /\ completed' = completed \cup {[sha |-> p.sha, objects |-> p.objects]}
  /\ Event("DELETE", p.objects, approval.id)
  /\ UNCHANGED <<now, holds, previews, approvals, keysRevoked>>

\* apply_hold; the id of a hold is made of the object and the approval, and a
\* repetition answers with the hold as it is, released or not.
ApplyHold(access, o, approval) ==
  /\ AuthorizeError(access, "hold") = None
  /\ LoadError(access, {o}) = None
  /\ ApprovalError(approval, access, "data.hold.apply", OfObject(o)) = None
  /\ ~ \E h \in holds : h.object = o /\ h.approval = approval.id
  /\ holds' = holds \cup {[object |-> o, approval |-> approval.id, scope |-> access.scope,
                           state |-> "ACTIVE"]}
  /\ Event("HOLD_APPLY", {o}, approval.id)
  /\ UNCHANGED <<now, objects, previews, completed, approvals, keysRevoked>>

\* release_hold; a released hold is returned as it is.
ReleaseHold(access, h, approval) ==
  /\ AuthorizeError(access, "hold") = None
  /\ access.scope = h.scope
  /\ h.state = "ACTIVE"
  /\ ApprovalError(approval, access, "data.hold.release", OfHold(h)) = None
  /\ holds' = (holds \ {h}) \cup {[h EXCEPT !.state = "RELEASED"]}
  /\ Event("HOLD_RELEASE", {h.object}, approval.id)
  /\ UNCHANGED <<now, objects, previews, completed, approvals, keysRevoked>>

EraseError(access, o, approval) ==
  LET load == LoadError(access, {o})
      hold == HoldError({o})
      allowed == ApprovalError(approval, access, "data.erase", OfObject(o))
  IN IF AuthorizeError(access, "erase") # None THEN AuthorizeError(access, "erase")
     ELSE IF load # None THEN load
     ELSE IF hold # None THEN hold
     ELSE IF now < objects[o].until THEN "LIFECYCLE_RETENTION_ACTIVE"
     ELSE IF allowed # None THEN allowed
     ELSE FirstRefusal(<< <<objects[o].key # "own", "LIFECYCLE_OBJECT_KEY_REQUIRED">> >>)

\* cryptographic_erase; when the provider does not revoke the key, nothing is erased.
CryptographicErase(access, o, approval) ==
  /\ EraseError(access, o, approval) = None
  /\ keysRevoked' = keysRevoked \cup {o}
  /\ objects' = [objects EXCEPT ![o].state = "CRYPTO_ERASED"]
  /\ Event("CRYPTO_ERASE", {o}, approval.id)
  /\ UNCHANGED <<now, holds, previews, completed, approvals>>

-----------------------------------------------------------------------------
(* The world around the service                                            *)

\* ApprovalRecord: what the approval service hands to the callers, for things
\* that exist, approved or rejected, for good or for a day.
Approve(grant, action, target) ==
  /\ Cardinality(approvals) < MaxApprovals
  /\ approvals' = approvals \cup
       {[id |-> Cardinality(approvals) + 1, scope |-> grant.scope, action |-> action,
         target |-> target, outcome |-> grant.outcome, decided |-> now,
         expires |-> IF grant.brief THEN now + 1 ELSE 0]}
  /\ UNCHANGED <<now, objects, holds, previews, completed, removal, keysRevoked>>

Tick ==
  /\ now < MaxTime
  /\ now' = now + 1
  /\ UNCHANGED <<objects, holds, previews, completed, approvals, removal, keysRevoked>>

Init ==
  /\ now = 0
  /\ objects = [o \in Objects |-> Absent]
  /\ holds = {} /\ previews = {} /\ completed = {} /\ approvals = {}
  /\ removal = [o \in Objects |-> NoEvent] /\ keysRevoked = {}

Next ==
  \/ Tick
  \/ \E grant \in Grants :
       \/ \E o \in Objects, action \in {"data.hold.apply", "data.erase"} :
            objects[o] # Absent /\ Approve(grant, action, OfObject(o))
       \/ \E p \in previews, action \in {"data.delete", "data.delete.force"} :
            Approve(grant, action, p.sha)
       \/ \E h \in holds :
            Approve(grant, "data.hold.release", OfHold(h))
  \/ \E access \in Accesses :
       \/ \E o \in Objects, r \in Registrations : Register(access, o, r)
       \/ \E targets \in PreviewTargets :
            \/ Export(access, targets)
            \/ \E force \in BOOLEAN : PreviewDelete(access, targets, force)
       \/ \E approval \in approvals :
            \/ \E p \in Presented(access) : Delete(access, p, approval)
            \/ \E o \in Objects :
                 ApplyHold(access, o, approval) \/ CryptographicErase(access, o, approval)
            \/ \E h \in holds : ReleaseHold(access, h, approval)

Spec == Init /\ [][Next]_lifecycleVars

\* The preview that was deleted is the one the approval is for.
AsApproved(e, approval) ==
  e.objects = approval.target.objects /\ approval.action = DeleteAction(approval.target)

\* The event that removes o names an approval in force of its scope: one for the
\* erasure of o when its retention is over, or one for the hash of a preview that
\* removed nothing yet.  What the approved preview itself names is past its
\* retention or was approved for forced deletion.
Covered(o) ==
  \E approval \in approvals :
    LET e == removal'[o]
        retained == now < objects[o].until
    IN
    /\ o \in e.objects /\ e.approval = approval.id
    /\ approval.scope = objects[o].scope /\ InForce(approval)
    /\ \/ /\ e.action = "CRYPTO_ERASE"
          /\ approval.action = "data.erase" /\ approval.target = OfObject(o)
          /\ ~retained
       \/ /\ e.action = "DELETE"
          /\ approval.action \in {"data.delete", "data.delete.force"}
          /\ approval.target.kind = "preview"
          /\ \A c \in completed : c.sha # approval.target
          /\ AsApproved(e, approval) /\ retained => approval.action = "data.delete.force"

\* Content is removed only from an object that no hold protects, also one applied
\* after the preview or the approval, and under an approval that covers its removal.
RemovalIsGoverned ==
  [][\A o \in Objects :
       objects[o].state = "ACTIVE" /\ objects'[o].state # "ACTIVE" =>
         ~Held(o) /\ Covered(o)]_lifecycleVars
==============================================================================
