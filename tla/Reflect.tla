------------------------------- MODULE Reflect -------------------------------
(***************************************************************************)
(* The MCP session's reading of the directed models                        *)
(* (internal/mcpserver/reflect.go): what ettle_mirror says the team        *)
(* believes about one person, and what ettle_drift would route to whom.    *)
(* Both compare the bus at the session's first read with the bus now, and  *)
(* tool calls run concurrently (server.go:153).                            *)
(***************************************************************************)
EXTENDS DirectedModels

CONSTANTS
  Callers,    \* tool calls in progress
  MaxEmits,   \* BOUND: envelopes published
  MaxCalls    \* BOUND: tool calls

ASSUME ReflectAssumption ==
  MaxEmits \in Nat /\ MaxCalls \in Nat

Envelope == [who : People, atoms : Batches]
Unread == MaxEmits + 1

VARIABLES
  bus,      \* the envelopes published, oldest first
  base,     \* how much of the bus the baseline holds, or Unread
  read,     \* each tool call in progress: how much of the bus it read, or Unread
  answer,   \* what the last step answered
  first,    \* history: how much the session's first read found
  crossed,  \* history: two calls have been in progress at once
  calls

sessionVars == <<bus, base, read, answer, first, crossed, calls>>

----------------------------------------------------------------------------
(* The bus after n envelopes, one envelope per participant, latest wins.   *)
Of(p, n) == {i \in 1..n : bus[i].who = p}
Snapshot(p, n) ==
  LET i == CHOOSE i \in Of(p, n) : \A j \in Of(p, n) : j <= i
  IN IF Of(p, n) = {} THEN <<>> ELSE bus[i].atoms
selfModels(n) == {p \in People : Snapshot(p, n) # <<>>}

(* The models the baseline b seeds, in one Advance from nothing.           *)
ModelOf(o, s, b) ==
  IF o # s /\ {o, s} \subseteq selfModels(b)
  THEN absorb(<<>>, EmitDelta(<<>>, Snapshot(s, b))) ELSE <<>>

(* What s would send to o now.                                             *)
Surprise(o, s, b, n) == EmitDelta(ModelOf(o, s, b), Snapshot(s, n))

(* ettle_mirror on me, whose name the caller spelled as published or in    *)
(* another case: observers and models go by the folded name, the current   *)
(* self-model by the exact one.                                            *)
Mirror(me, asPublished, b, n) ==
  LET observers == {o \in selfModels(n) \ {me} : ModelOf(o, me, b) # <<>>}
      current == IF asPublished THEN Snapshot(me, n) ELSE <<>>
      believed == UNION {Said(Canonical(ModelOf(o, me, b))) : o \in observers}
      stale == UNION {StaleBeliefs(ModelOf(o, me, b), current) : o \in observers}
      Mark(x) == IF \E d \in stale : d.believed = x
                 THEN (CHOOSE d \in stale : d.believed = x).kind ELSE "current"
  IN [tool |-> "mirror", me |-> me, asPublished |-> asPublished, base |-> b, at |-> n,
      says |-> {<<x, Mark(x)>> : x \in believed}]

(* ettle_drift: per changed subject, who is routed to and what.            *)
Drift(b, n) ==
  LET stale(s) == {o \in selfModels(n) \ {s} : Surprise(o, s, b, n) # <<>>}
  IN [tool |-> "drift", base |-> b, at |-> n,
      deltas |-> [s \in {x \in selfModels(n) : stale(x) # {}} |->
         [routed |-> stale(s),
          atoms |-> UNION {Said(Surprise(o, s, b, n)) : o \in stale(s)}]]]

----------------------------------------------------------------------------
Unanswered == [tool |-> "none"]

SessionInit ==
  /\ bus = <<>>
  /\ base = Unread
  /\ read = [c \in Callers |-> Unread]
  /\ answer = Unanswered
  /\ first = Unread
  /\ crossed = FALSE
  /\ calls = 0

(* ettle_emit, or a teammate's capture.                                    *)
Publish(e) ==
  /\ Len(bus) < MaxEmits
  /\ bus' = Append(bus, e)
  /\ answer' = Unanswered
  /\ UNCHANGED <<base, read, first, crossed, calls>>

Start(c) ==
  /\ calls < MaxCalls
  /\ calls' = calls + 1
  /\ read[c] = Unread
  /\ answer' = Unanswered

(* A tool call reads the bus (snapshot's Collect).                         *)
Collect(c) ==
  /\ Start(c)
  /\ read' = [read EXCEPT ![c] = Len(bus)]
  /\ first' = IF first = Unread THEN Len(bus) ELSE first
  /\ crossed' = (crossed \/ \E d \in Callers : read[d] # Unread)
  /\ UNCHANGED <<bus, base>>

(* The bus cannot be read.                                                 *)
CollectFails(c) == Start(c) /\ UNCHANGED <<bus, base, read, first, crossed>>

RememberedLast(c) == read[c]
Remembered(c) == IF base = Unread THEN read[c] ELSE base

(* It remembers the baseline if none is, and answers from it; or it is     *)
(* another reader (ettle_horizon, ettle_room_status) and only remembers.   *)
Answer(c) ==
  LET b == Remembered(c)
      n == read[c]
  IN
  /\ n # Unread
  /\ base' = b
  /\ read' = [read EXCEPT ![c] = Unread]
  /\ \/ \E me \in People, exact \in BOOLEAN : answer' = Mirror(me, exact, b, n)
     \/ answer' = Drift(b, n)
     \/ answer' = Unanswered
  /\ UNCHANGED <<bus, first, crossed, calls>>

SessionNext ==
  \/ \E e \in Envelope : Publish(e)
  \/ \E c \in Callers : Collect(c) \/ Answer(c) \/ CollectFails(c)

SessionSpec == SessionInit /\ [][SessionNext]_sessionVars

----------------------------------------------------------------------------
Answers(tool) == {a \in {answer} : a.tool = tool}
LastSaid(p, n) == {Latest(Snapshot(p, n), k) : k \in Held(Snapshot(p, n))}

SessionOK ==
  /\ bus \in Seq(Envelope) /\ Len(bus) <= MaxEmits
  /\ base \in 0..Len(bus) \cup {Unread}
  /\ first \in 0..Len(bus) \cup {Unread} /\ first <= base
  /\ read \in [Callers -> 0..Len(bus) \cup {Unread}]
  /\ answer.tool \in {"none", "mirror", "drift"}
  /\ crossed \in BOOLEAN
  /\ calls \in 0..MaxCalls

(* While calls do not cross, the baseline is the session's first read and  *)
(* stays it (reflect.go:43-46, "it is never rewritten"), in a well-formed  *)
(* state.                                                                  *)
BaselineIsFirstRead ==
  /\ SessionOK
  /\ ~crossed /\ base # Unread => base = first

(* The same said of every session, whose calls may cross.                  *)
BaselineIsAlwaysFirstRead == base # Unread => base <= first

(* What the mirror says of a person called by the published name: the      *)
(* beliefs are exactly what that person last said in the baseline, unless  *)
(* nobody is there to hold them, and one is unmarked, drifted or dropped   *)
(* as the person still says it, says otherwise or no longer speaks of it   *)
(* (reflect.go:89-95, 134-177).                                            *)
MirrorSaysWhatChanged ==
  \A a \in Answers("mirror") :
    /\ {x[1] : x \in a.says} \in {{}, LastSaid(a.me, a.base)}
    /\ a.asPublished =>
         \A x \in a.says :
           x[2] = IF x[1] \in LastSaid(a.me, a.at) THEN "current"
                  ELSE IF beliefKey(x[1]) \in Held(Snapshot(a.me, a.at)) THEN "drifted"
                  ELSE "dropped"

(* "absent when the belief still matches" (reflect.go:93), however the     *)
(* caller spells the name.                                                 *)
MatchingIsUnmarked ==
  \A a \in Answers("mirror") : \A x \in a.says :
    x[1] \in LastSaid(a.me, a.at) => x[2] = "current"

(* Drift routes to exactly those it must: everyone left out already holds  *)
(* all a subject now says, and nothing listed is known to all it is routed *)
(* to (reflect.go:208-211).                                                *)
DriftRoutesTheSurprise ==
  \A a \in Answers("drift") : \A s \in selfModels(a.at) :
    LET Knows(o) == Said(ModelOf(o, s, a.base))
        Routed == IF s \in DOMAIN a.deltas THEN a.deltas[s].routed ELSE {}
    IN /\ \A o \in selfModels(a.at) \ ({s} \cup Routed) : LastSaid(s, a.at) \subseteq Knows(o)
       /\ s \in DOMAIN a.deltas =>
            /\ a.deltas[s].atoms \subseteq LastSaid(s, a.at)
            /\ \A o \in Routed : LastSaid(s, a.at) \subseteq Knows(o) \cup a.deltas[s].atoms
            /\ \A x \in a.deltas[s].atoms : \E o \in Routed : x \notin Knows(o)
=============================================================================
