----------------------------- MODULE EofFraming -----------------------------
(***************************************************************************)
(* How every connection of the system carries messages: the sender writes  *)
(* the message and then </EOF> (sendMsg, startRecive of the Adapter); the  *)
(* receiver (startReciveData) appends whatever a read() returns to a local *)
(* string and, once that contains </EOF>, hands it to reciveMsg, which     *)
(* cuts the messages off its front and returns the rest.                   *)
(*                                                                         *)
(* The bytes are ASCII, so that a byte is a character wherever a read      *)
(* ends.  A read may end anywhere, in the middle of </EOF> too.            *)
(***************************************************************************)
EXTENDS Integers, Sequences, SequencesExt, FiniteSetsExt

CONSTANTS
  Alphabet,    \* the characters
  Eof,         \* "</EOF>", whose characters all differ
  MaxLength,   \* bound: characters in a message
  MaxMsgs      \* bound: messages sent

ASSUME FramingAssumption ==
  /\ Eof \in Seq(Alphabet) /\ Eof # <<>> /\ IsInjective(Eof)
  /\ MaxLength \in Nat /\ MaxMsgs \in Nat

VARIABLES
  written,     \* the messages that were sent, oldest first
  wire,        \* the bytes that were sent and not read
  data,        \* the local string of startReciveData, then of reciveMsg
  inHandler,   \* inside reciveMsg
  received     \* the messages that were handed on, oldest first

vars == <<written, wire, data, inHandler, received>>

\* Where </EOF> begins in s.
EofIndices(s) ==
  {i \in 1..(Len(s) + 1 - Len(Eof)) : SubSeq(s, i, i + Len(Eof) - 1) = Eof}
ContainsEof(s) == EofIndices(s) # {}

\* Mutant: lastIndexOf.
M_LastIndexOfEof(s) == Max(EofIndices(s))

IndexOfEof(s) == Min(EofIndices(s))
\* substring(eofEndIdx + 6, length).
Rest(s, i) == SubSeq(s, i + Len(Eof), Len(s))

\* A message does not contain </EOF>; it may well end with a part of it.
Messages == {m \in UNION {[1..n -> Alphabet] : n \in 0..MaxLength} : ~ContainsEof(m)}

Init ==
  /\ written = <<>> /\ wire = <<>>
  /\ data = <<>> /\ inHandler = FALSE /\ received = <<>>

SendMsg(m) ==
  /\ Len(written) < MaxMsgs
  /\ written' = Append(written, m)
  /\ wire' = wire \o m \o Eof
  /\ UNCHANGED <<data, inHandler, received>>

\* read() returns some bytes.
Read(length) ==
  /\ ~inHandler /\ length <= Len(wire)
  /\ data' = data \o SubSeq(wire, 1, length)
  /\ wire' = SubSeq(wire, length + 1, Len(wire))
  /\ inHandler' = ContainsEof(data')
  /\ UNCHANGED <<written, received>>

\* Mutant: one message for each read.
M_CutMessage ==
  /\ inHandler
  /\ received' = Append(received, SubSeq(data, 1, IndexOfEof(data) - 1))
  /\ data' = Rest(data, IndexOfEof(data))
  /\ inHandler' = FALSE
  /\ UNCHANGED <<written, wire>>

\* One round of the loop in reciveMsg, which goes on while there is an </EOF>.
CutMessage ==
  /\ inHandler
  /\ LET i == IndexOfEof(data)
     IN received' = Append(received, SubSeq(data, 1, i - 1)) /\ data' = Rest(data, i)
  /\ inHandler' = ContainsEof(data')
  /\ UNCHANGED <<written, wire>>

\* The connection ends, or the handler throws: the string is local to the
\* connection, and another connection begins with nothing.
Reconnect ==
  /\ written # <<>>
  /\ written' = <<>> /\ wire' = <<>>
  /\ data' = <<>> /\ inHandler' = FALSE /\ received' = <<>>

Next ==
  \/ \E m \in Messages : SendMsg(m)
  \/ \E length \in 1..(MaxMsgs * (MaxLength + Len(Eof))) : Read(length)
  \/ CutMessage
  \/ Reconnect

Spec == Init /\ [][Next]_vars

-----------------------------------------------------------------------------
(* Properties.                                                             *)

\* However the bytes are cut into reads, the receiver gets the messages that were
\* sent, whole and in their order.
ReceivedAsSent == IsPrefix(received, written)

\* Nothing is held back: when everything that was sent is read and the handler has
\* returned, every message has been handed on and the string is empty.
NothingHeldBack == wire = <<>> /\ ~inHandler => received = written /\ data = <<>>

=============================================================================
