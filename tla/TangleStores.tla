---------------------------- MODULE TangleStores ----------------------------
(***************************************************************************)
(* The per-room tangle stores (muted, confirmed, escalated) and everything *)
(* that reads or writes them: `ettle mute`, `ettle confirm`, `ettle        *)
(* escalate`, and the MCP server's ettle_respond, ettle_horizon and        *)
(* ettle_escalate.                                                         *)
(*                                                                         *)
(* A store is one JSON file.  Every change is an unlocked load, edit, save *)
(* of the whole set; a save truncates the file and then writes it, so a    *)
(* reader or a second writer can come in between, and so can a kill.       *)
(***************************************************************************)
EXTENDS Naturals, Sequences

CONSTANTS
  Keys,       \* tangle keys: kind plus parties (tanglestate.Key)
  Subjects,   \* what tangles of one key can be about
  Procs,      \* calls in progress: CLI commands and MCP tool calls
  MaxCalls,   \* BOUND: calls started
  MaxPosts,   \* BOUND: posts counted per key
  MaxFaults   \* BOUND: failed posts; lost replies and kills

ASSUME StoresAssumption == MaxCalls \in Nat /\ MaxPosts \in Nat /\ MaxFaults \in Nat

Stores == {"muted", "confirmed", "escalated"}
Tangles == Keys \X Subjects
KeyOf(t) == t[1]

VARIABLES
  file,       \* the keys each store's file holds, when it can be parsed
  state,      \* of each file: "ok", "empty" (truncated), or "garbage"
  call,       \* each call: where it is and what it holds in memory
  view,       \* keys of the tangles the server's last horizon surfaced
  posts,      \* how often a key was posted on the coordination issue
  given,      \* history: verdicts ever given, per store
  standing,   \* history: verdicts given and not withdrawn, per store
  reposted,   \* history: keys `ettle escalate` posted that were posted before
  defied,     \* history: who posted which key while its mute was on file
  overlapped, \* history: two calls have been in progress at once
  calls, faults, accidents

stores  == <<file, state>>
history == <<given, standing, reposted, defied, overlapped>>
counts  == <<calls, faults, accidents>>
vars == <<stores, call, view, posts, history, counts>>

(* One edit: the keys it takes out of a store and those it puts in.        *)
Edit == [store : Stores, drop : SUBSET Keys, add : SUBSET Keys]
Adds(st, k)  == [store |-> st, drop |-> {}, add |-> {k}]
Drops(st, D) == [store |-> st, drop |-> D, add |-> {}]

Call == [pc     : {"idle", "load", "save", "write", "raise",
                   "emitted", "mutes", "post", "show"},
         edits  : Seq(Edit),        \* head: the edit in progress
         set    : SUBSET Keys,      \* the set loaded, then the set to save
         left   : SUBSET Tangles,   \* tangles reconciled, then still to post
         posted : SUBSET Keys]      \* postedKeys of `ettle escalate`

NewCall(at, edits, tangles) ==
  [pc |-> at, edits |-> edits, set |-> {}, left |-> tangles, posted |-> {}]
NoCall == NewCall("idle", <<>>, {})

TypeOK ==
  /\ file \in [Stores -> SUBSET Keys]
  /\ state \in [Stores -> {"ok", "empty", "garbage"}]
  /\ call \in [Procs -> Call]
  /\ view \subseteq Keys
  /\ posts \in [Keys -> 0..MaxPosts]
  /\ given \in [Stores -> SUBSET Keys]
  /\ standing \in [Stores -> SUBSET Keys]
  /\ reposted \subseteq Keys
  /\ defied \subseteq {"cli", "mcp"} \X Keys
  /\ overlapped \in BOOLEAN
  /\ calls \in 0..MaxCalls /\ faults \in 0..MaxFaults /\ accidents \in 0..MaxFaults

Init ==
  /\ file = [st \in Stores |-> {}]
  /\ state = [st \in Stores |-> "ok"]
  /\ call = [p \in Procs |-> NoCall]
  /\ view = {}
  /\ posts = [k \in Keys |-> 0]
  /\ given = [st \in Stores |-> {}]
  /\ standing = [st \in Stores |-> {}]
  /\ reposted = {}
  /\ defied = {}
  /\ overlapped = FALSE
  /\ calls = 0 /\ faults = 0 /\ accidents = 0

----------------------------------------------------------------------------
(* Calls start.                                                            *)

Begin(p, c) ==
  /\ call[p].pc = "idle"
  /\ calls < MaxCalls
  /\ calls' = calls + 1
  /\ call' = [call EXCEPT ![p] = c]
  /\ overlapped' = (overlapped \/ \E q \in Procs : call[q].pc # "idle")
  /\ UNCHANGED <<stores, view, posts, reposted, defied, faults, accidents>>

(* `ettle mute k`, `ettle confirm k`, ettle_respond not_real/handled/real. *)
Judge(p, st, k) ==
  /\ Begin(p, NewCall("load", <<Adds(st, k)>>, {}))
  /\ given' = [given EXCEPT ![st] = @ \cup {k}]
  /\ standing' = [standing EXCEPT ![st] = @ \cup {k}]

(* `ettle mute --clear`, `ettle confirm --clear`: one key, or all of them. *)
Withdraw(p, st, D) ==
  /\ Begin(p, NewCall("load", <<Drops(st, D)>>, {}))
  /\ standing' = [standing EXCEPT ![st] = @ \ D]
  /\ UNCHANGED given

(* ettle_respond clear: whichever answer was given.                        *)
RespondClear(p, k) ==
  /\ Begin(p, NewCall("load", <<Drops("muted", {k}), Drops("confirmed", {k})>>, {}))
  /\ standing' = [st \in Stores |-> IF st = "escalated" THEN standing[st]
                                    ELSE standing[st] \ {k}]
  /\ UNCHANGED given

(* ettle_horizon, and `ettle escalate` on the firm cross-person tangles,   *)
(* once the reconcile has come back.                                       *)
Horizon(p, T) ==
  /\ Begin(p, NewCall("mutes", <<>>, T))
  /\ UNCHANGED <<given, standing>>

Escalate(p, T) ==
  /\ Begin(p, NewCall("emitted", <<>>, T))
  /\ UNCHANGED <<given, standing>>

(* ettle_escalate k: only what the last horizon surfaced.                  *)
Raise(p, k) ==
  /\ k \in view
  /\ Begin(p, NewCall("raise", <<Adds("escalated", k)>>, {}))
  /\ UNCHANGED <<given, standing>>

----------------------------------------------------------------------------
(* One edit of a store: tanglestate.Add, Remove, and the clear-all forms.  *)

Goes(p, c) ==
  /\ call' = [call EXCEPT ![p] = c]
  /\ UNCHANGED <<history, counts>>

(* A store that cannot be parsed is an error: the call returns it.         *)
Refuse(p) ==
  /\ call' = [call EXCEPT ![p] = NoCall]
  /\ UNCHANGED <<history, counts>>

(* The call after its head edit: the next one, or done.                    *)
NextEdit(c) ==
  IF Len(c.edits) <= 1 THEN NoCall
  ELSE [c EXCEPT !.pc = "load", !.edits = Tail(c.edits)]

EditedAll(c) == file[Head(c.edits).store] \cup Head(c.edits).add
Edited(c) == (file[Head(c.edits).store] \ Head(c.edits).drop) \cup Head(c.edits).add

Load(p) ==
  LET c == call[p]
      st == Head(c.edits).store IN
  /\ c.pc = "load"
  /\ IF state[st] # "ok" THEN Refuse(p)
     ELSE Goes(p, IF Edited(c) = file[st] THEN NextEdit(c)      \* nothing to save
                  ELSE [c EXCEPT !.pc = "save", !.set = Edited(c)])
  /\ UNCHANGED <<stores, view, posts>>

Truncate(p) ==
  LET c == call[p]
      st == Head(c.edits).store IN
  /\ c.pc = "save"
  /\ file' = [file EXCEPT ![st] = {}]
  /\ state' = [state EXCEPT ![st] = "empty"]
  /\ Goes(p, [c EXCEPT !.pc = "write"])
  /\ UNCHANGED <<view, posts>>

(* The write starts at byte 0.  Over what a second writer put there since  *)
(* the truncation it leaves that writer's tail, if that text was longer.   *)
Write(p) ==
  LET c == call[p]
      st == Head(c.edits).store
      whole == state[st] = "empty" \/ (state[st] = "ok" /\ file[st] \subseteq c.set) IN
  /\ c.pc = "write"
  /\ \/ /\ whole \/ ~(c.set \subseteq file[st])
        /\ file' = [file EXCEPT ![st] = c.set]
        /\ state' = [state EXCEPT ![st] = "ok"]
     \/ /\ ~whole
        /\ file' = [file EXCEPT ![st] = {}]
        /\ state' = [state EXCEPT ![st] = "garbage"]
  /\ Goes(p, NextEdit(c))
  /\ UNCHANGED <<view, posts>>

----------------------------------------------------------------------------
(* The readers: horizon and the two escalations.                           *)

LoadEmitted(p) ==
  LET c == call[p] IN
  /\ c.pc = "emitted"
  /\ IF state["escalated"] # "ok" THEN Refuse(p)
     ELSE Goes(p, [c EXCEPT !.pc = "mutes", !.set = file["escalated"],
                            !.edits = <<Drops("escalated", {})>>])
  /\ UNCHANGED <<stores, view, posts>>

WantedKeys(c) == {KeyOf(t) : t \in c.left} \ (c.set \cup file["muted"])
WantedUnfiltered(c) == {t \in c.left : KeyOf(t) \notin c.set}
Wanted(c) ==
  {t \in c.left : KeyOf(t) \notin c.set /\ KeyOf(t) \notin file["muted"]}

LoadMutes(p) ==
  LET c == call[p] IN
  /\ c.pc = "mutes" /\ c.edits # <<>>
  /\ IF state["muted"] # "ok" THEN Refuse(p)
     ELSE Goes(p, IF Wanted(c) = {} THEN NoCall
                  ELSE [c EXCEPT !.pc = "post", !.left = Wanted(c)])
  /\ UNCHANGED <<stores, view, posts>>

(* Horizon goes on as if nothing were muted when it cannot read the store. *)
LoadHidden(p) ==
  LET c == call[p] IN
  /\ c.pc = "mutes" /\ c.edits = <<>>
  /\ Goes(p, [c EXCEPT !.pc = "show",
                       !.set = IF state["muted"] = "ok" THEN file["muted"] ELSE {}])
  /\ UNCHANGED <<stores, view, posts>>

Show(p) ==
  LET c == call[p] IN
  /\ c.pc = "show"
  /\ view' = {KeyOf(t) : t \in c.left} \ c.set
  /\ Goes(p, NoCall)
  /\ UNCHANGED <<stores, posts>>

Fault ==
  /\ faults < MaxFaults
  /\ faults' = faults + 1
  /\ UNCHANGED accidents

Accident ==
  /\ accidents < MaxFaults
  /\ accidents' = accidents + 1
  /\ UNCHANGED faults

(* A post lands on the coordination issue.                                 *)
Lands(who, k) ==
  /\ posts[k] < MaxPosts
  /\ posts' = [posts EXCEPT ![k] = @ + 1]
  /\ defied' = IF k \in file["muted"] THEN defied \cup {<<who, k>>} ELSE defied
  /\ reposted' = IF who = "cli" /\ posts[k] > 0 THEN reposted \cup {k} ELSE reposted
  /\ UNCHANGED <<given, standing, overlapped>>

(* What `ettle escalate` saves: what was there when it began, and what it  *)
(* posted.                                                                 *)
SavePlanned(c) == [c EXCEPT !.pc = "save", !.left = {},
                            !.set = c.set \cup c.posted \cup {KeyOf(t) : t \in c.left}]
SaveOnlyPrior(c) == [c EXCEPT !.pc = "save", !.left = {}]
SaveEmitted(c) == [c EXCEPT !.pc = "save", !.left = {}, !.set = c.set \cup c.posted]

PostTangle(p, t) ==
  LET c == call[p]
      d == [c EXCEPT !.left = c.left \ {t}, !.posted = c.posted \cup {KeyOf(t)}] IN
  /\ c.pc = "post" /\ t \in c.left
  /\ Lands("cli", KeyOf(t))
  /\ call' = [call EXCEPT ![p] = IF d.left = {} THEN SaveEmitted(d) ELSE d]
  /\ UNCHANGED <<stores, view, counts>>

(* The issue, the session or the post fails, or (counted as an accident)   *)
(* the post lands and its reply is lost: what is known to be posted is     *)
(* saved before the error is returned.                                     *)
PostFails(p) ==
  /\ call[p].pc = "post"
  /\ \/ /\ Fault
        /\ UNCHANGED <<posts, history>>
     \/ /\ Accident
        /\ \E t \in call[p].left : Lands("cli", KeyOf(t))
  /\ call' = [call EXCEPT ![p] = SaveEmitted(call[p])]
  /\ UNCHANGED <<stores, view, calls>>

RaisePost(p) ==
  LET c == call[p] IN
  /\ c.pc = "raise"
  /\ \E k \in Head(c.edits).add : Lands("mcp", k)
  /\ call' = [call EXCEPT ![p] = [c EXCEPT !.pc = "load"]]
  /\ UNCHANGED <<stores, view, counts>>

RaiseFails(p) ==
  /\ call[p].pc = "raise"
  /\ \/ /\ Fault
        /\ UNCHANGED <<posts, history>>
     \/ /\ Accident
        /\ \E k \in Head(call[p].edits).add : Lands("mcp", k)
  /\ call' = [call EXCEPT ![p] = NoCall]
  /\ UNCHANGED <<stores, view, calls>>

Kill(p) ==
  /\ call[p].pc # "idle"
  /\ Accident
  /\ call' = [call EXCEPT ![p] = NoCall]
  /\ UNCHANGED <<stores, view, posts, history, calls>>

----------------------------------------------------------------------------
Starts(p) ==
  \/ \E k \in Keys :
       \/ \E st \in {"muted", "confirmed"} : Judge(p, st, k) \/ Withdraw(p, st, {k})
       \/ RespondClear(p, k) \/ Raise(p, k)
  \/ \E st \in {"muted", "confirmed"} : Withdraw(p, st, Keys)
  \/ \E T \in SUBSET Tangles : Horizon(p, T) \/ Escalate(p, T)

Runs(p) ==
  \/ Load(p) \/ Truncate(p) \/ Write(p)
  \/ LoadEmitted(p) \/ LoadMutes(p) \/ LoadHidden(p) \/ Show(p)
  \/ (\E t \in Tangles : PostTangle(p, t)) \/ PostFails(p)
  \/ RaisePost(p) \/ RaiseFails(p) \/ Kill(p)

Next == \E p \in Procs : Starts(p) \/ Runs(p)

Spec == Init /\ [][Next]_vars

----------------------------------------------------------------------------
(* Whatever the calls, their interleaving, splices and kills: a key is in   *)
(* the muted or the confirmed store only on a person's verdict, and in the *)
(* escalated store only once it was posted, so nothing is ever hidden, or  *)
(* skipped as already raised, on ettle's own account (escalate.go:193-197, *)
(* server.go:752-771, 812-815).                                            *)
StoresGrounded ==
  /\ file["muted"] \subseteq given["muted"]
  /\ file["confirmed"] \subseteq given["confirmed"]
  /\ \A k \in file["escalated"] : posts[k] > 0

(* Calls one at a time, none killed: every store is readable and holds     *)
(* exactly the verdicts given and not withdrawn, on either surface         *)
(* (mute.go:24-26, server.go:715-738).                                     *)
VerdictsStand ==
  (~overlapped /\ accidents = 0 /\ \A p \in Procs : call[p].pc = "idle") =>
    /\ \A st \in Stores : state[st] = "ok"
    /\ \A st \in {"muted", "confirmed"} : file[st] = standing[st]

(* Calls one at a time, none killed: `ettle escalate` never posts again    *)
(* what it, or the server, has posted before, failed posts included        *)
(* (escalate.go:24, 81-84, 193-194), unless two tangles share a key.       *)
NoRepost ==
  (~overlapped /\ accidents = 0 /\ \A a, b \in Subjects : a = b) => reposted = {}

(* Calls one at a time: `ettle escalate` posts nothing that is muted       *)
(* (escalate.go:42-46, mute.go:24-26).                                     *)
MuteStopsEscalate ==
  ~overlapped => \A k \in Keys : <<"cli", k>> \notin defied

(* A muted tangle is not posted, from either surface, even with one call   *)
(* at a time: "horizon stops re-surfacing it and escalate won't post it"   *)
(* (server.go:752-753).                                                    *)
MuteStopsEveryEscalation ==
  ~overlapped => defied = {}
=============================================================================
