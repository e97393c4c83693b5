------------------------------- MODULE Streams -------------------------------
(***************************************************************************)
(* TCP between the process of an MqttClient and the master.  A stream c is *)
(* a pair of FIFO channels, sent[c] and wrote[c], of which the ends have   *)
(* read the first heard[c] and taken[c] messages.  A stream can be cut:    *)
(* nothing more is delivered, and each end notices on its own, the master  *)
(* only after the idle timeout of five minutes, the client when its        *)
(* operating system gives up.                                              *)
(*                                                                         *)
(* The modules that extend this one conjoin the handler of the event.      *)
(***************************************************************************)
EXTENDS MqttClient

CONSTANT MaxCuts  \* bound: streams that are cut

ASSUME CutAssumption == MaxCuts \in Nat

VARIABLES
  listening, sock, sent,  \* of MasterAgent
  heard,  \* messages of sent[c] the client has read
  taken,  \* messages of wrote[c] the master has read
  cut,    \* streams that deliver nothing any more
  cuts    \* how many were cut

network == <<heard, taken, cut, cuts>>

StreamsInit ==
  /\ heard = [c \in Conns |-> 0]
  /\ taken = [c \in Conns |-> 0]
  /\ cut = {}
  /\ cuts = 0

-----------------------------------------------------------------------------
\* The master gets a connection; CONNACK reaches the client.
Reaches(c) == stream[c] = "connecting" /\ c \notin cut
IsAcknowledged(c) == sock[c] = "open" /\ c \notin cut

CutOff(c) ==
  /\ cuts < MaxCuts
  /\ stream[c] # "ended" /\ c \notin cut
  /\ cut' = cut \cup {c}
  /\ cuts' = cuts + 1
  /\ UNCHANGED <<heard, taken>>

\* The client sees the end: of a cut stream, or of one the master refuses.
ClientSeesEnd(c) ==
  /\ c \in cut \/ (stream[c] = "connecting" /\ ~listening)
  /\ heard' = [heard EXCEPT ![c] = 0]
  /\ cut' = IF sock[c] = "closed" THEN cut \ {c} ELSE cut
  /\ UNCHANGED <<taken, cuts>>

\* The master sees the end: of a cut stream, of one the client has ended or says it
\* leaves, of one the client has dropped and that is idle.  A stream the master has ended
\* before the client is a cut one, also when the client still waits for its CONNACK.
MasterSeesEnd(c) ==
  /\ \/ c \in cut \/ stream[c] = "ended" \/ alive # "running"
     \/ taken[c] < Len(wrote[c]) /\ wrote[c][taken[c] + 1].kind = "disconnect"
     \/ c # socket /\ heard[c] = Len(sent[c]) /\ taken[c] = Len(wrote[c])
  /\ taken' = [taken EXCEPT ![c] = 0]
  /\ cut' = IF stream[c] = "ended" THEN cut \ {c} ELSE cut \cup {c}
  /\ UNCHANGED <<heard, cuts>>

\* The next message of each direction, and reading it.
ToClient(c) == sent[c][heard[c] + 1]
ToMaster(c) == wrote[c][taken[c] + 1]

Hears(c) ==
  /\ stream[c] = "open" /\ c \notin cut
  /\ heard[c] < Len(sent[c])
  /\ heard' = [heard EXCEPT ![c] = @ + 1]
  /\ UNCHANGED <<taken, cut, cuts>>

Takes(c) ==
  /\ sock[c] = "open" /\ c \notin cut
  /\ taken[c] < Len(wrote[c])
  /\ taken' = [taken EXCEPT ![c] = @ + 1]
  /\ UNCHANGED <<heard, cut, cuts>>

=============================================================================
