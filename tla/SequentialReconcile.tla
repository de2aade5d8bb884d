------------------------ MODULE SequentialReconcile ------------------------
(***************************************************************************)
(* What the oracle promises, without how it gets there: each run looks at  *)
(* one deployment after the other, notes which are valid and which flags   *)
(* have to change, hands in the changes from first to last, and remembers  *)
(* the valid deployments.  A run that does not come to its end leaves      *)
(* nothing behind but what it handed in.                                   *)
(*                                                                         *)
(* Pages, the buffer of concurrent checks, the order in which they end,    *)
(* timestamps, chunks of a fixed size and the awaits of deny_many are      *)
(* absent.  Reconcile implements this specification.                       *)
(***************************************************************************)
EXTENDS Naturals, Sequences

CONSTANTS
  Deployments  \* the deployment ids

VARIABLES
  state,       \* "waiting", "looking", "submitting" or "stopped"
  known,       \* <<d, deny>>: some check of d said so, or the denylist did at first
  ruledOut,    \* the deployments a check of this run found invalid
  valid,       \* the deployments this run noted as valid
  changes,     \* the flags this run wants to change, in the order it saw them
  unsent,      \* what is not yet handed in of them
  remembered,  \* the deployments that need no check
  outbox,      \* what was handed in and has not reached the contract
  denylist     \* the contract's flags

vars == <<state, known, ruledOut, valid, changes, unsent, remembered, outbox, denylist>>

Entry == [id : Deployments, deny : BOOLEAN]

Init ==
  /\ state = "waiting"
  /\ denylist \in [Deployments -> BOOLEAN]
  /\ known = {<<d, denylist[d]>> : d \in Deployments}
  /\ ruledOut = {} /\ valid = {} /\ remembered = {}
  /\ changes = <<>> /\ unsent = <<>> /\ outbox = <<>>

-----------------------------------------------------------------------------
(* A run *)

Open ==
  /\ state = "waiting"
  /\ state' = "looking"
  /\ UNCHANGED <<known, ruledOut, valid, changes, unsent, remembered, outbox, denylist>>

\* A check comes to a result, long before or just when it is noted.
Learn(d, deny) ==
  /\ state = "looking"
  /\ known' = known \cup {<<d, deny>>}
  /\ ruledOut' = IF deny THEN ruledOut \cup {d} ELSE ruledOut
  /\ UNCHANGED <<state, valid, changes, unsent, remembered, outbox, denylist>>

\* The next deployment of the list is noted.  To deny takes a check of this run;
\* to allow, one that was once made.
Look(d, deny) ==
  /\ state = "looking"
  /\ IF deny THEN d \in ruledOut ELSE <<d, FALSE>> \in known
  /\ changes' \in {changes, Append(changes, [id |-> d, deny |-> deny])}
  /\ valid' = IF deny THEN valid ELSE valid \cup {d}
  /\ UNCHANGED <<state, known, ruledOut, unsent, remembered, outbox, denylist>>

Submit ==
  /\ state = "looking"
  /\ state' = "submitting"
  /\ unsent' = changes
  /\ changes' = <<>>
  /\ UNCHANGED <<known, ruledOut, valid, remembered, outbox, denylist>>

\* Some entries from the front are handed in at once, behind or in the place of
\* what an earlier run left on its way; the run may go on or lose interest.
HandIn(n) ==
  /\ state = "submitting"
  /\ outbox' \in {Append(outbox, SubSeq(unsent, 1, n)), <<SubSeq(unsent, 1, n)>>}
  /\ unsent' \in {SubSeq(unsent, n + 1, Len(unsent)), <<>>}
  /\ UNCHANGED <<state, known, ruledOut, valid, changes, remembered, denylist>>

GiveUp ==
  /\ state = "submitting"
  /\ unsent' = <<>>
  /\ UNCHANGED <<state, known, ruledOut, valid, changes, remembered, outbox, denylist>>

Forgotten == ruledOut' = {} /\ valid' = {} /\ changes' = <<>> /\ unsent' = <<>>

\* The end of a run: the valid deployments replace the remembered ones.
Finish ==
  /\ state = "submitting"
  /\ unsent = <<>>
  /\ state' = "waiting"
  /\ remembered' = valid
  /\ Forgotten
  /\ UNCHANGED <<known, outbox, denylist>>

\* The run ends with an error.
Abandon ==
  /\ state \in {"looking", "submitting"}
  /\ state' = "waiting"
  /\ Forgotten
  /\ UNCHANGED <<known, remembered, outbox, denylist>>

Stop ==
  /\ state # "stopped"
  /\ state' = "stopped"
  /\ remembered' = {}
  /\ Forgotten
  /\ UNCHANGED <<known, outbox, denylist>>

Resume ==
  /\ state = "stopped"
  /\ state' = "waiting"
  /\ UNCHANGED <<known, ruledOut, valid, changes, unsent, remembered, outbox, denylist>>

-----------------------------------------------------------------------------
(* The contract *)

\* The oldest batch takes effect: a deployment it names gets the flag of its last
\* entry for it, the others keep theirs.
Land ==
  /\ outbox # <<>>
  /\ outbox' = Tail(outbox)
  /\ LET batch == Head(outbox)
         Last(d, j) == batch[j].id = d /\ \A k \in DOMAIN batch : k > j => batch[k].id # d
     IN denylist' \in
          {f \in [Deployments -> BOOLEAN] : \A d \in Deployments :
             \/ \E j \in DOMAIN batch : Last(d, j) /\ f[d] = batch[j].deny
             \/ f[d] = denylist[d] /\ \A j \in DOMAIN batch : ~Last(d, j)}
  /\ UNCHANGED <<state, known, ruledOut, valid, changes, unsent, remembered>>

Drop ==
  /\ outbox # <<>>
  /\ outbox' = Tail(outbox)
  /\ UNCHANGED <<state, known, ruledOut, valid, changes, unsent, remembered, denylist>>

-----------------------------------------------------------------------------

Next ==
  \/ Open
  \/ \E d \in Deployments, deny \in BOOLEAN : Learn(d, deny) \/ Look(d, deny)
  \/ Submit
  \/ \E n \in 1..Len(unsent) : HandIn(n)
  \/ GiveUp \/ Finish \/ Abandon \/ Stop \/ Resume
  \/ Land \/ Drop

Spec == Init /\ [][Next]_vars

=============================================================================
