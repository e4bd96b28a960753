------------------------------- MODULE Rooms -------------------------------
(***************************************************************************)
(* What one machine remembers about rooms (init.go, roomstore.go,          *)
(* roomfile.go, bus.go, linear.go) and the `ettle init` that writes it:    *)
(* the directory-to-room map, one identity file per room with its          *)
(* workspace, and the hooks merged into Claude Code's settings.  Each file *)
(* is loaded, edited, truncated and written with no lock, so two runs may  *)
(* cross in it and a killed run may leave it empty; an empty or unreadable *)
(* file reads as no record.  Every room here is a Linear one: a project    *)
(* per workspace, found by its name.                                       *)
(***************************************************************************)
EXTENDS Naturals

CONSTANTS
  Dirs,      \* directories
  Depth,     \* how long each one's path is
  Above,     \* each directory and those above it
  Legacy,    \* the .ettle-room files: directory -> entry, room None when it says nothing
  RoomNames, \* room specs
  Profiles,  \* key profiles
  Spaces,    \* Linear workspaces
  SpaceOf,   \* the workspace of each profile's key, and of the global key
  Names,     \* --me
  None,
  Procs,
  MaxRuns,   \* BOUND: runs of init
  MaxKills   \* BOUND: runs killed

ASSUME RoomsAssumption ==
  /\ Depth \in [Dirs -> Nat] /\ Above \in [Dirs -> SUBSET Dirs]
  /\ \A d \in Dirs : d \in Above[d] /\ \A e \in Above[d] \ {d} : Depth[e] < Depth[d]
  /\ DOMAIN Legacy \subseteq Dirs
  /\ \A d \in DOMAIN Legacy : Legacy[d] \in [room : RoomNames \cup {None},
                                            profile : Profiles \cup {None}]
  /\ SpaceOf \in [Profiles \cup {None} -> Spaces]
  /\ MaxRuns \in Nat /\ MaxKills \in Nat
  /\ None \notin RoomNames \cup Profiles \cup Spaces \cup Names

VARIABLES
  store,     \* rooms.json
  ident,     \* the identity file of each room
  settings, bak, \* settings.json and its backup: whose hooks are in it
  projects,  \* the workspaces that hold a project of the room's name
  proc, runs, kills,
  told,      \* the entry each directory was last given
  flagged,   \* the last --profile typed for each directory
  named,     \* the last --me recorded for each room
  home,      \* the workspace first recorded for each room
  crossed    \* the files two runs crossed in, or one was killed in

vars == <<store, ident, settings, bak, projects, proc, runs, kills,
          told, flagged, named, home, crossed>>
files  == <<store, ident, settings, bak>>
ghosts == <<told, flagged, named, home>>

Entry(r, f) == [room |-> r, profile |-> f]
NoEntry == Entry(None, None)
NoOne   == [me |-> None, org |-> None]
Off     == [pc |-> "off"]

Init ==
  /\ store = <<>> /\ ident = [r \in RoomNames |-> NoOne]
  /\ settings = {"theirs"} /\ bak = {}
  /\ projects = [r \in RoomNames |-> {}]
  /\ proc = [p \in Procs |-> Off] /\ runs = 0 /\ kills = 0
  /\ told = <<>> /\ flagged = [d \in Dirs |-> None]
  /\ named = [r \in RoomNames |-> None] /\ home = [r \in RoomNames |-> None]
  /\ crossed = {}

-----------------------------------------------------------------------------
(* Which room governs a directory.                                         *)

Deepest(S) == CHOOSE d \in S : \A e \in S : Depth[e] <= Depth[d]

(* roomForDirAt: the longest recorded path at or above d.                  *)
StoredAt(d) == Above[d] \cap DOMAIN store

(* findRoomFile: the nearest file ends the walk, even if it says nothing.  *)
LegacyAt(d) == Above[d] \cap DOMAIN Legacy
FoundLegacy(d) == LegacyAt(d) # {} /\ Legacy[Deepest(LegacyAt(d))].room # None

(* resolveRoom: the nearer of the two, the map on a tie.                   *)
Resolve(d) ==
  LET legacyNearer == Depth[Deepest(LegacyAt(d))] > Depth[Deepest(StoredAt(d))]
  IN IF FoundLegacy(d) /\ (StoredAt(d) = {} \/ legacyNearer)
     THEN Legacy[Deepest(LegacyAt(d))]
     ELSE IF StoredAt(d) # {} THEN store[Deepest(StoredAt(d))] ELSE NoEntry

(* activeProfile: the environment, else the profile on record.             *)
Active(e, env) == IF env # None THEN env ELSE e.profile

-----------------------------------------------------------------------------
(* A bus is constructed: the project is found, or created if the workspace *)
(* is the recorded one or none is recorded.                                *)

ExpectedNothing(r) == None
Expected(r) == ident[r].org
MayCreate(r, w) == Expected(r) \in {None, w}

(* A hook or command in d, with the keys of d's profile.                   *)
Command(d, env) ==
  LET e == Resolve(d)
      w == SpaceOf[Active(e, env)]
  IN /\ e.room # None
     /\ w \notin projects[e.room] /\ MayCreate(e.room, w)
     /\ projects' = [projects EXCEPT ![e.room] = @ \cup {w}]
     /\ UNCHANGED <<files, proc, runs, kills, ghosts, crossed>>

-----------------------------------------------------------------------------
(* `ettle init`.                                                           *)

At(p, pc) == proc[p].pc = pc
Goto(p, pc) == proc' = [proc EXCEPT ![p].pc = pc]

(* Who is between loading a file and having written it.                    *)
InStore(p) == proc[p].pc \in {"mapopen", "mapwrite"}
BeforeMap(p) == proc[p].pc \in {"verify", "create", "map"} \/ InStore(p)
InIdent(p, r) ==
  /\ proc[p].pc \in {"meopen", "mewrite", "orgopen", "orgwrite"}
  /\ proc[p].room = r
InSettings(p) == proc[p].pc \in {"hookopen", "hookwrite"}
Emptied(r) == \E q \in Procs : proc[q].pc \in {"mewrite", "orgwrite"} /\ proc[q].room = r
Creating(p, r) == At(p, "create") /\ proc[p].room = r

Mark(x, cond) == crossed' = IF cond THEN crossed \cup {x} ELSE crossed

RecordedActive(e, f, env) == IF f # None THEN f ELSE Active(e, env)
(* What is recorded is the flag, else the profile on record: the           *)
(* environment is this run's only.                                         *)
Recorded(e, f, env) == IF f # None THEN f ELSE e.profile

(* resolveTargetAndProfile, initTarget.                                    *)
Start(p, d, r, n, f, env) ==
  /\ At(p, "off") /\ runs < MaxRuns
  /\ runs' = runs + 1
  /\ proc' = [proc EXCEPT ![p] =
       [pc |-> "verify", dir |-> d, room |-> r, me |-> n, flag |-> f,
        profile |-> Recorded(Resolve(d), f, env),
        space |-> SpaceOf[IF f # None THEN f ELSE Active(Resolve(d), env)],
        ok |-> FALSE, map |-> <<>>]]
  /\ Mark("profile", \E q \in Procs : BeforeMap(q))
  /\ UNCHANGED <<files, projects, kills, ghosts>>

(* verifyLinearRoom: no key, an error or a refusal leaves it not ok, and   *)
(* the run goes on.                                                        *)
Verify(p) ==
  /\ At(p, "verify")
  /\ LET r == proc[p].room
         w == proc[p].space
     IN \/ w \in projects[r] /\ proc' = [proc EXCEPT ![p].pc = "map", ![p].ok = TRUE]
        \/ w \notin projects[r] /\ MayCreate(r, w) /\ Goto(p, "create")
        \/ Goto(p, "map")
  /\ Mark(proc[p].room, Emptied(proc[p].room))
  /\ UNCHANGED <<files, projects, runs, kills, ghosts>>

CreateProject(p) ==
  /\ At(p, "create")
  /\ projects' = [projects EXCEPT ![proc[p].room] = @ \cup {proc[p].space}]
  /\ \E ok \in BOOLEAN : proc' = [proc EXCEPT ![p].pc = "map", ![p].ok = ok]
  /\ UNCHANGED <<files, runs, kills, ghosts, crossed>>

(* What a run still holds when it comes to the hooks.                      *)
Hooking == [pc |-> "hooks", hooks |-> {}]

(* saveRoomForDir: load, edit, truncate, write.                            *)
With(map, d, e) == [x \in DOMAIN map \cup {d} |-> IF x = d THEN e ELSE map[x]]

LoadMap(p) ==
  /\ At(p, "map")
  /\ proc' = [proc EXCEPT ![p].pc = "mapopen", ![p].map = store]
  /\ Mark("store", \E q \in Procs \ {p} : InStore(q))
  /\ UNCHANGED <<files, projects, runs, kills, ghosts>>

OpenMap(p) ==
  /\ At(p, "mapopen") /\ Goto(p, "mapwrite") /\ store' = <<>>
  /\ UNCHANGED <<ident, settings, bak, projects, runs, kills, ghosts, crossed>>

WriteMap(p) ==
  LET q == proc[p]
      e == Entry(q.room, q.profile)
  IN /\ At(p, "mapwrite")
     /\ proc' = [proc EXCEPT ![p] = [pc |-> "me", room |-> q.room, me |-> q.me,
                                     space |-> q.space, ok |-> q.ok, id |-> NoOne]]
     /\ store' = With(q.map, q.dir, e)
     /\ told' = With(told, q.dir, e)
     /\ flagged' = IF q.flag = None THEN flagged ELSE [flagged EXCEPT ![q.dir] = q.flag]
     /\ UNCHANGED <<ident, settings, bak, projects, runs, kills, named, home, crossed>>

LoadName(p) ==
  LET r == proc[p].room IN
  /\ At(p, "me")
  /\ proc' = [proc EXCEPT ![p].pc = "meopen", ![p].id = [NoOne EXCEPT !.me = proc[p].me]]
  /\ Mark(r, \E q \in Procs \ {p} : InIdent(q, r))
  /\ UNCHANGED <<files, projects, runs, kills, ghosts>>

(* saveIdentity, and after it saveOrg: each loads the record and writes    *)
(* its own half of it.                                                     *)
LoadIdent(p) ==
  LET r == proc[p].room IN
  /\ At(p, "me")
  /\ proc' = [proc EXCEPT ![p].pc = "meopen", ![p].id = [ident[r] EXCEPT !.me = proc[p].me]]
  /\ Mark(r, \E q \in Procs \ {p} : InIdent(q, r))
  /\ UNCHANGED <<files, projects, runs, kills, ghosts>>

OpenIdent(p) ==
  /\ proc[p].pc \in {"meopen", "orgopen"}
  /\ Goto(p, IF At(p, "meopen") THEN "mewrite" ELSE "orgwrite")
  /\ ident' = [ident EXCEPT ![proc[p].room] = NoOne]
  /\ UNCHANGED <<store, settings, bak, projects, runs, kills, ghosts, crossed>>

WriteIdent(p) ==
  LET r == proc[p].room IN
  /\ At(p, "mewrite")
  /\ proc' = [proc EXCEPT ![p] = IF @.ok THEN [@ EXCEPT !.pc = "org"] ELSE Hooking]
  /\ ident' = [ident EXCEPT ![r] = proc[p].id]
  /\ named' = [named EXCEPT ![r] = proc[p].me]
  /\ UNCHANGED <<store, settings, bak, projects, runs, kills, told, flagged, home, crossed>>

(* recordWorkspace: a workspace that cannot be read, or one other than the *)
(* recorded one, is not recorded.                                          *)
RecordWorkspace(p) ==
  LET r == proc[p].room IN
  /\ At(p, "org")
  /\ \/ proc' = [proc EXCEPT ![p] = Hooking] /\ UNCHANGED crossed
     \/ /\ Expected(r) \in {None, proc[p].space}
        /\ proc' = [proc EXCEPT ![p].pc = "orgopen",
                                ![p].id = [ident[r] EXCEPT !.org = proc[p].space]]
        /\ Mark(r, \E q \in Procs \ {p} : InIdent(q, r))
  /\ UNCHANGED <<files, projects, runs, kills, ghosts>>

WriteOrg(p) ==
  LET r == proc[p].room IN
  /\ At(p, "orgwrite") /\ proc' = [proc EXCEPT ![p] = Hooking]
  /\ ident' = [ident EXCEPT ![r] = proc[p].id]
  /\ home' = IF home[r] = None THEN [home EXCEPT ![r] = proc[p].space] ELSE home
  /\ Mark(r, \E q \in Procs : Creating(q, r))
  /\ UNCHANGED <<store, settings, bak, projects, runs, kills, told, flagged, named>>

(* installHooks: read, back up what was read, and write the merge.         *)
SkipHooks(p) ==
  /\ At(p, "hooks") /\ proc' = [proc EXCEPT ![p] = Off]
  /\ UNCHANGED <<files, projects, runs, kills, ghosts, crossed>>

BackUpLast(p) ==
  /\ At(p, "hooks")
  /\ proc' = [proc EXCEPT ![p] = IF "ettle" \in settings THEN Off
                                 ELSE [@ EXCEPT !.pc = "hookopen", !.hooks = settings]]
  /\ Mark("settings", settings = {} \/ \E q \in Procs \ {p} : InSettings(q))
  /\ UNCHANGED <<store, ident, settings, bak, projects, runs, kills, ghosts>>

BackUp(p) ==
  /\ At(p, "hooks")
  /\ bak' = settings
  /\ proc' = [proc EXCEPT ![p] = IF "ettle" \in settings THEN Off
                                 ELSE [@ EXCEPT !.pc = "hookopen", !.hooks = settings]]
  /\ Mark("settings", settings = {} \/ \E q \in Procs \ {p} : InSettings(q))
  /\ UNCHANGED <<store, ident, settings, projects, runs, kills, ghosts>>

OpenSettings(p) ==
  /\ At(p, "hookopen") /\ Goto(p, "hookwrite") /\ settings' = {}
  /\ UNCHANGED <<store, ident, bak, projects, runs, kills, ghosts, crossed>>

WriteSettings(p) ==
  /\ At(p, "hookwrite") /\ proc' = [proc EXCEPT ![p] = Off]
  /\ settings' = proc[p].hooks \cup {"ettle"}
  /\ UNCHANGED <<store, ident, bak, projects, runs, kills, ghosts, crossed>>

(* A kill between truncating a file and writing it leaves it empty.        *)
Kill(p) ==
  /\ proc[p] # Off /\ kills < MaxKills
  /\ kills' = kills + 1
  /\ proc' = [proc EXCEPT ![p] = Off]
  /\ crossed' = crossed \cup (IF At(p, "mapwrite") THEN {"store"} ELSE {})
                        \cup (IF proc[p].pc \in {"mewrite", "orgwrite"} THEN {proc[p].room} ELSE {})
  /\ UNCHANGED <<files, projects, runs, ghosts>>

Next ==
  \/ \E p \in Procs :
       \/ \E d \in Dirs, r \in RoomNames, n \in Names, f, env \in Profiles \cup {None} :
            Start(p, d, r, n, f, env)
       \/ Verify(p) \/ CreateProject(p) \/ LoadMap(p) \/ OpenMap(p) \/ WriteMap(p)
       \/ LoadIdent(p) \/ OpenIdent(p) \/ WriteIdent(p)
       \/ RecordWorkspace(p) \/ WriteOrg(p)
       \/ SkipHooks(p) \/ BackUp(p) \/ OpenSettings(p) \/ WriteSettings(p)
       \/ Kill(p)
  \/ \E d \in Dirs, env \in Profiles \cup {None} : Command(d, env)

Spec == Init /\ [][Next]_vars

-----------------------------------------------------------------------------
(* Properties.                                                             *)

(* The state is well formed: a run that is past the map has recorded it.   *)
TypeOK ==
  /\ DOMAIN store \subseteq Dirs /\ \A d \in DOMAIN store : store[d].room \in RoomNames
  /\ \A r \in RoomNames : ident[r].org \in Spaces \cup {None} /\ ident[r].me \in Names \cup {None}
  /\ settings \cup bak \subseteq {"theirs", "ettle"}
  /\ runs \in 0..MaxRuns /\ kills \in 0..MaxKills
  /\ \A r \in RoomNames : ident[r].org # None => ident[r].org \in projects[r]

(* roomstore.go, roomfile.go 205-207: a directory's entry and a room's     *)
(* identity and workspace stay what they were last told, and the workspace *)
(* what it was first found to be, whatever other runs record, unless two   *)
(* runs crossed in that file or one was killed writing it; the state is    *)
(* well formed, and a recorded workspace is one that has the project.      *)
RecordsKept ==
  /\ TypeOK
  /\ ("store" \notin crossed /\ \A p \in Procs : ~At(p, "mapwrite")) => store = told
  /\ \A r \in RoomNames :
       (r \notin crossed /\ ~Emptied(r)) =>
         ident[r] = [me |-> named[r], org |-> home[r]]

(* roomfile.go 236-239: once a room's workspace is on record, no command   *)
(* and no init creates a second project of its name in another workspace,  *)
(* but for a bus constructed while the record was being rewritten.         *)
NoSecondRoom ==
  [][ \A r \in RoomNames : home[r] # None /\ r \notin crossed /\ ~Emptied(r) =>
        projects'[r] \ projects[r] \subseteq {home[r]} ]_vars

FileProfiles == {None} \cup {Legacy[d].profile : d \in DOMAIN Legacy}

(* init.go 86-96: a profile typed for a directory is the one its commands  *)
(* read until another is typed, whatever ETTLE_PROFILE was at a later init *)
(* and wherever it was run from, unless that init began before the map was *)
(* written; and where none was ever typed none is on record but what a     *)
(* room file says, ETTLE_PROFILE being of one run only.                    *)
ProfileStands ==
  /\ ({"store", "profile"} \cap crossed = {} /\ \A p \in Procs : ~At(p, "mapwrite")) =>
       \A d \in Dirs : flagged[d] # None => Resolve(d).profile = flagged[d]
  /\ (\A d \in Dirs : flagged[d] = None) => \A d \in Dirs : Resolve(d).profile \in FileProfiles

(* init.go 738-744: the user's own hooks are in the settings or in the     *)
(* backup beside them, a kill anywhere included, unless two installs       *)
(* crossed or one began on the emptied file.                               *)
UserHooksKept == "settings" \notin crossed => "theirs" \in settings \cup bak

(* Not so (linear.go 444-447): the guard reads an emptied record as no     *)
(* expectation, and creates.                                               *)
GuardAlwaysOn ==
  [][ \A r \in RoomNames : home[r] # None =>
        projects'[r] \ projects[r] \subseteq {home[r]} ]_vars

(* Not so (init.go 741-742, 868-869): a run killed while it writes leaves  *)
(* the settings empty, and running it again backs the empty file up.       *)
SafeToRerun == "theirs" \in settings \cup bak

(* Not so (roomfile.go 93): a file that says nothing ends the walk, where  *)
(* an absent one would not.                                                *)
BlankIsAbsent ==
  \A d \in Dirs : (\A k \in Above[d] : k \notin DOMAIN store) =>
    LET says == {k \in LegacyAt(d) : Legacy[k].room # None}
    IN says # {} => Resolve(d) = Legacy[Deepest(says)]
=============================================================================
