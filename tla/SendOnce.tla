------------------------------ MODULE SendOnce ------------------------------
(***************************************************************************)
(* What MyBookkeeper promises of an email it sends on the host's behalf    *)
(* through a mailbox that may not answer: each item (a rent receipt, an    *)
(* inquiry reply) is mailed at most once, an item is only confirmed when   *)
(* its mail is out, and an item whose mail may be out is never offered for *)
(* sending again.                                                          *)
(*                                                                         *)
(* Nothing here knows of requests, claims, mailboxes or timeouts.          *)
(***************************************************************************)
CONSTANTS
    Items,      \* the things that are mailed
    Messages    \* the emails that can be sent for them

VARIABLES
    state,      \* state[i]: how far the application has got with item i
    mail        \* mail[i]: the emails that are out for item i

States == {"absent", "open", "trying", "sent", "dropped"}

TypeOK ==
    /\ state \in [Items -> States]
    /\ mail \in [Items -> SUBSET Messages]

(* An item may have been tried before it is first looked at: the claim and *)
(* the mail of such an attempt are found, not made.                        *)
Init ==
    /\ state \in [Items -> {"absent", "open", "trying"}]
    /\ mail \in [Items -> {{}} \union {{m} : m \in Messages}]
    /\ \A i \in Items : mail[i] # {} => state[i] = "trying"

Move(i, from, to) ==
    /\ state[i] \in from
    /\ state' = [state EXCEPT ![i] = to]
    /\ UNCHANGED mail

Open(i) == Move(i, {"absent"}, "open")

Try(i) == Move(i, {"open"}, "trying")

(* The one step that mails. *)
Deliver(i, m) ==
    /\ state[i] = "trying"
    /\ mail[i] = {}
    /\ mail' = [mail EXCEPT ![i] = {m}]
    /\ UNCHANGED state

GiveUp(i) == mail[i] = {} /\ Move(i, {"trying"}, "open")

Confirm(i) == mail[i] # {} /\ Move(i, {"trying"}, "sent")

Drop(i) == Move(i, {"open", "trying"}, "dropped")

Next ==
    \E i \in Items :
        \/ Open(i) \/ Try(i) \/ GiveUp(i) \/ Confirm(i) \/ Drop(i)
        \/ \E m \in Messages : Deliver(i, m)

Spec == Init /\ [][Next]_<<state, mail>>
=============================================================================
