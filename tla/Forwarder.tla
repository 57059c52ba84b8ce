----------------------------- MODULE Forwarder -----------------------------
(***************************************************************************)
(* What the Adapter promises, whatever breaks: a message that came in on a *)
(* port reaches at most one host, at most once, and a host gets the        *)
(* messages of a port in the order in which they came in.  It does not     *)
(* promise that a message arrives, nor an order between the hosts.         *)
(***************************************************************************)
EXTENDS Naturals, Sequences, SequencesExt

CONSTANTS Ports, Hosts

VARIABLES
  accepted,    \* how many messages have come in on each port
  delivered    \* what each host has read, oldest first

Messages == Ports \X Nat

Delivered == UNION {ToSet(delivered[h]) : h \in Hosts}

Init ==
  /\ accepted = [p \in Ports |-> 0]
  /\ delivered = [h \in Hosts |-> <<>>]

Accept(p) ==
  /\ accepted'[p] > accepted[p]
  /\ accepted' = [accepted EXCEPT ![p] = accepted'[p]]
  /\ UNCHANGED delivered

Deliver(h, p, n) ==
  /\ n <= accepted[p] /\ <<p, n>> \notin Delivered
  /\ \A m \in ToSet(delivered[h]) : m[1] = p => m[2] < n
  /\ delivered' = [delivered EXCEPT ![h] = Append(@, <<p, n>>)]
  /\ UNCHANGED accepted

Next ==
  \/ \E p \in Ports : Accept(p)
  \/ \E h \in Hosts, p \in Ports : \E n \in 1..accepted[p] : Deliver(h, p, n)

Spec == Init /\ [][Next]_<<accepted, delivered>>

=============================================================================
