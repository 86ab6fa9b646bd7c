---------------------------- MODULE EntryChannel ----------------------------
(***************************************************************************)
(* What the way from the device to the alert files promises: an entry that *)
(* was sent completely arrives, once, whole, and in the order of sending.  *)
(***************************************************************************)
EXTENDS Naturals, Sequences

CONSTANT Item  (* The entries.                                             *)

VARIABLES
  sent,        (* The entries sent completely, in order.                   *)
  arrived      (* The entries that arrived, in order.                      *)

channelVars == <<sent, arrived>>

Init ==
  /\ sent = <<>>
  /\ arrived = <<>>

Send ==
  /\ \E e \in Item : sent' = Append(sent, e)
  /\ UNCHANGED arrived

Arrive ==
  /\ Len(arrived) < Len(sent)
  /\ arrived' = Append(arrived, sent[Len(arrived) + 1])
  /\ UNCHANGED sent

Next == Send \/ Arrive

Spec == Init /\ [][Next]_channelVars

\* Nothing stays in the channel forever.
FairSpec == Spec /\ WF_channelVars(Arrive)
=============================================================================
