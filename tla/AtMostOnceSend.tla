----------------------------- MODULE AtMostOnceSend -----------------------------
(***************************************************************************)
(* What every delivery workflow of the repository promises about one       *)
(* report identity (a "key": signal day and publication mode, or family    *)
(* and report date):                                                       *)
(*                                                                         *)
(*   - a durable send intent is written before SMTP is contacted;          *)
(*   - after an intent, automation contacts SMTP at most once for the key: *)
(*     an uncertain outcome is never resolved by sending again;            *)
(*   - the delivered marker follows a send, it never precedes one;         *)
(*   - an operator's explicit correction is outside that budget, and once  *)
(*     it has left its own evidence, automation stays silent for the key.  *)
(*                                                                         *)
(* docs/adversarial-delivery-20260904.md lines 18-21 state the contract;   *)
(* the detailed modules are checked to implement this specification.       *)
(***************************************************************************)
EXTENDS Naturals

CONSTANT Keys            \* report identities

VARIABLES intended,      \* keys with an automatic send intent
          sends,         \* number of automatic mails the SMTP server accepted
          barred,        \* keys an operator's correction has left evidence on
          confirmed      \* keys with a delivered marker

vars == <<intended, sends, barred, confirmed>>

TypeOK ==
  /\ intended \subseteq Keys
  /\ sends \in [Keys -> Nat]
  /\ barred \subseteq Keys
  /\ confirmed \subseteq Keys

Init ==
  /\ intended = {}
  /\ sends = [k \in Keys |-> 0]
  /\ barred = {}
  /\ confirmed = {}

\* Automation commits to sending k; never twice, never after a correction.
Intend(k) ==
  /\ k \notin intended \cup barred
  /\ intended' = intended \cup {k}
  /\ UNCHANGED <<sends, barred, confirmed>>

\* SMTP accepts the one mail of an intended key.
Accept(k) ==
  /\ k \in intended
  /\ sends[k] = 0
  /\ sends' = [sends EXCEPT ![k] = 1]
  /\ UNCHANGED <<intended, barred, confirmed>>

\* The marker records a send that happened.
Confirm(k) ==
  /\ sends[k] > 0 \/ k \in barred
  /\ confirmed' = confirmed \cup {k}
  /\ UNCHANGED <<intended, sends, barred>>

\* The operator sends a correction of k by hand.
Correct(k) ==
  /\ barred' = barred \cup {k}
  /\ UNCHANGED <<intended, sends, confirmed>>

Next == \E k \in Keys : Intend(k) \/ Accept(k) \/ Confirm(k) \/ Correct(k)

Spec == Init /\ [][Next]_vars
=================================================================================
