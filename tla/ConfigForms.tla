----------------------------- MODULE ConfigForms -----------------------------
(***************************************************************************)
(* The forms of the configuration page (routes/config_route.py) and a sync *)
(* run, over what they share: the write lock of SQLite, the event loop of  *)
(* the web process, the table config and the table user_identity_map.      *)
(*                                                                         *)
(* A form is handled without an await after its body was read: until it is *)
(* answered the loop does nothing else, waiting for the write lock         *)
(* included.  A run is a task of the loop or a process of its own ("cli"). *)
(* A pull holds the write lock from its first upsert on, across its awaits.*)
(* That there is one run at a time is SyncLock's subject.                  *)
(*                                                                         *)
(* A user's name in the requester is the number of his renames.  Whom a    *)
(* mapping leads to does not matter here; that it joins the requests of    *)
(* its user, on id and name, does.                                         *)
(***************************************************************************)
EXTENDS Integers, Sequences, FiniteSets, Functions

CONSTANTS
  KeyOrder,    \* the tunable keys, in the order of the form
  Values,      \* their valid values
  Env,         \* Env[k]: the value from the environment, or the default
  UserOrder,   \* the users of the requesters, in the order of the refresh
  MaxRenames,  \* bound: renames per user
  Arounds      \* bound: the sets of events that are explored together

Keys  == Range(KeyOrder)
Users == Range(UserOrder)

CONSTANTS Unset, Bad    \* no row in config; a value that is not valid

ASSUME FormsAssumption ==
  /\ KeyOrder \in Seq(Keys) /\ UserOrder \in Seq(Users)
  /\ Env \in [Keys -> Values] /\ {Unset, Bad} \cap Values = {} /\ Unset # Bad
  /\ MaxRenames \in Nat
  /\ Arounds \subseteq SUBSET {"settings", "mapping", "rename"}

VARIABLES
  around,    \* the events that happen around the runs (never changes)
  holder,    \* of the write lock: "none" or the process of the run
  form,      \* the form that is handled
  store,     \* config
  logged,    \* the values of the keys that audit_log tells of last
  cut,       \* keys saved by a form that did not get to its audit row (history)
  upstream,  \* the users' names in the requester
  reqs,      \* requests.requester_name, or Nameless if there is none yet
  umap,      \* user_identity_map: how a user was mapped, and under which name
  draft,     \* the same with the uncommitted upserts of the run
  early,     \* users mapped by hand before they had a row (history)
  run,       \* the current run or the last: its process and how far it is
  list,      \* the users as the run listed them
  todo,      \* users that it has not refreshed yet
  judged,    \* the settings its candidates are judged by
  due        \* the effective settings when it began (history)

setVars  == <<store, logged, cut>>
mapVars  == <<upstream, reqs, umap, early>>
runVars  == <<draft, run, list, todo, judged, due>>
formVars == <<around, holder, form, setVars, mapVars, runVars>>

Nameless == -1
Names    == 0 .. MaxRenames
Unmapped == [how |-> "none", name |-> Nameless]
NoList   == [u \in Users |-> 0]
NoForm   == [kind |-> "none"]
Over     == {"idle", "done", "dead"}

FormsTypeOK ==
  /\ holder \in {"none", "task", "cli"}
  /\ form.kind \in {"none", "settings", "mapping"}
  /\ store \in [Keys -> Values \cup {Unset}] /\ logged \in [Keys -> Values \cup {Unset}]
  /\ cut \subseteq Keys /\ early \subseteq Users
  /\ upstream \in [Users -> Names] /\ list \in [Users -> Names]
  /\ reqs \in [Users -> Names \cup {Nameless}]
  /\ \A m \in {umap, draft} :
       m \in [Users -> [how : {"none", "auto", "manual"}, name : Names \cup {Nameless}]]
  /\ run \in [who : {"task", "cli"},
              at : Over \cup {"pull", "held", "users", "requests", "map", "put", "judge", "missed"}]
  /\ todo \in Seq(Users) /\ judged \in [Keys -> Values] /\ due \in [Keys -> Values]

FormsInit ==
  /\ around \in Arounds
  /\ holder = "none" /\ form = NoForm
  /\ store = [k \in Keys |-> Unset] /\ logged = store /\ cut = {}
  /\ upstream = [u \in Users |-> 0] /\ list = NoList
  /\ reqs = [u \in Users |-> Nameless]
  /\ umap = [u \in Users |-> Unmapped] /\ draft = umap /\ early = {}
  /\ run = [who |-> "task", at |-> "idle"] /\ todo = << >>
  /\ judged = Env /\ due = Env

\* get_setting(): the row of the key, else the environment or the default.
Effective(k) == IF store[k] = Unset THEN Env[k] ELSE store[k]

LoopFree == form.kind = "none"

-----------------------------------------------------------------------------
(* The forms.                                                              *)

\* POST /config/save: all the keys, as the page sends them.
SubmitSettings ==
  /\ LoopFree /\ "settings" \in around
  /\ \E value \in [Keys -> Values \cup {Bad}] :
       form' = [kind |-> "settings", saved |-> << >>,
                left |-> [i \in DOMAIN KeyOrder |-> [key |-> KeyOrder[i], value |-> value[KeyOrder[i]]]]]
  /\ UNCHANGED <<holder, setVars, mapVars, runVars>>

\* POST /config/user-mapping.
SubmitMapping(u) ==
  /\ LoopFree /\ "mapping" \in around
  /\ form' = [kind |-> "mapping", user |-> u]
  /\ UNCHANGED <<holder, setVars, mapVars, runVars>>

AtSetting == form.kind = "settings" /\ form.left # << >>
AtAudit   == form.kind = "settings" /\ form.left = << >>
SavedKeys == IF form.kind = "settings" THEN {form.saved[i].key : i \in DOMAIN form.saved} ELSE {}

\* set_setting(): a transaction of its own for each key.
SaveKey ==
  /\ AtSetting /\ Head(form.left).value # Bad /\ holder = "none"
  /\ LET next == Head(form.left) IN
     /\ store' = [store EXCEPT ![next.key] = next.value]
     /\ form' = [kind |-> "settings", saved |-> Append(form.saved, next), left |-> Tail(form.left)]
  /\ UNCHANGED <<holder, logged, cut, mapVars, runVars>>

(* Mutant of Refuse: the log is written on the error path, from the form. *)
RefuseLogged ==
  /\ AtSetting /\ Head(form.left).value = Bad
  /\ logged' = [k \in Keys |->
       IF \E i \in DOMAIN form.left : form.left[i].key = k /\ form.left[i].value # Bad
       THEN (CHOOSE x \in Range(form.left) : x.key = k).value ELSE logged[k]]
  /\ cut' = cut \cup SavedKeys /\ form' = NoForm
  /\ UNCHANGED <<holder, store, mapVars, runVars>>

\* validate_setting() raises: the answer is a 400, what was saved stays.
Refuse ==
  /\ AtSetting /\ Head(form.left).value = Bad
  /\ cut' = cut \cup SavedKeys /\ form' = NoForm
  /\ UNCHANGED <<holder, store, logged, mapVars, runVars>>

\* The audit row of the form, in a transaction of its own, and the answer.
Audit ==
  /\ AtAudit /\ holder = "none"
  /\ logged' = [k \in Keys |->
                  IF k \in SavedKeys THEN (CHOOSE x \in Range(form.saved) : x.key = k).value
                  ELSE logged[k]]
  /\ cut' = cut \ SavedKeys /\ form' = NoForm
  /\ UNCHANGED <<holder, store, mapVars, runVars>>

(* Mutant of MapUser: the name is not kept when there is a row. *)
MapUserNameless ==
  /\ form.kind = "mapping" /\ holder = "none"
  /\ umap' = [umap EXCEPT ![form.user] = [how |-> "manual", name |-> Nameless]]
  /\ draft' = umap'
  /\ early' = IF umap[form.user] = Unmapped THEN early \cup {form.user} ELSE early
  /\ form' = NoForm
  /\ UNCHANGED <<holder, setVars, upstream, reqs, run, list, todo, judged, due>>

\* config_save_user_mapping(): the row and its audit row in one transaction.
\* The name is that of the row that is there, or NULL.
MapUser ==
  /\ form.kind = "mapping" /\ holder = "none"
  /\ umap' = [umap EXCEPT ![form.user].how = "manual"]
  /\ draft' = umap'
  /\ early' = IF umap[form.user] = Unmapped THEN early \cup {form.user} ELSE early
  /\ form' = NoForm
  /\ UNCHANGED <<holder, setVars, upstream, reqs, run, list, todo, judged, due>>

(* Mutant of BusyTimeout: there is no timeout. *)
BusyForever == FALSE /\ UNCHANGED formVars

\* The write lock was not free for 30 seconds: the answer is a 500.  The task
\* that may hold it cannot move meanwhile, a process can.
BusyTimeout ==
  /\ AtAudit \/ form.kind = "mapping" \/ (AtSetting /\ Head(form.left).value # Bad)
  /\ holder # "none"
  /\ cut' = cut \cup SavedKeys /\ form' = NoForm
  /\ UNCHANGED <<holder, store, logged, mapVars, runVars>>

FormStep ==
  /\ SaveKey \/ Refuse \/ Audit \/ MapUser \/ BusyTimeout
  /\ UNCHANGED around

-----------------------------------------------------------------------------
(* The run.                                                                *)

At(who, place) == run.who = who /\ run.at = place /\ (who = "task" => LoopFree)
Go(place) == run' = [run EXCEPT !.at = place]

Rename(u) ==
  /\ upstream[u] < MaxRenames /\ "rename" \in around
  /\ upstream' = [upstream EXCEPT ![u] = @ + 1]
  /\ UNCHANGED <<holder, form, setVars, reqs, umap, early, runVars>>

BeginRun(who) ==
  /\ run.at \in Over /\ (who = "task" => LoopFree)
  /\ run' = [who |-> who, at |-> "pull"]
  /\ due' = [k \in Keys |-> Effective(k)]
  /\ UNCHANGED <<holder, form, setVars, mapVars, draft, list, todo, judged>>

\* A pull of an Arr instance or of Plex, at its first upsert and at its commit.
OpenPull(who) ==
  /\ At(who, "pull") /\ holder = "none"
  /\ holder' = who /\ Go("held")
  /\ UNCHANGED <<form, setVars, mapVars, draft, list, todo, judged, due>>

ClosePull(who) ==
  /\ At(who, "held")
  /\ holder' = "none" /\ Go("users")
  /\ UNCHANGED <<form, setVars, mapVars, draft, list, todo, judged, due>>

\* sync_requester_instance(): the users, and then the requests, whose rows are
\* written without an await between them.
ListUsers(who) ==
  /\ At(who, "users")
  /\ list' = upstream /\ Go("requests")
  /\ UNCHANGED <<holder, form, setVars, mapVars, draft, todo, judged, due>>

PullRequests(who) ==
  /\ At(who, "requests") /\ holder = "none"
  /\ reqs' = upstream /\ todo' = UserOrder /\ Go("map")
  /\ UNCHANGED <<holder, form, setVars, upstream, umap, early, draft, list, judged, due>>

\* The requester or Tautulli fails: the error is swallowed, no map is made.
MissUsers(who) ==
  /\ \E place \in {"users", "requests", "map"} : At(who, place)
  /\ run.at = "map" => todo = UserOrder
  /\ list' = NoList /\ todo' = << >> /\ Go("missed")
  /\ UNCHANGED <<holder, form, setVars, mapVars, draft, judged, due>>

AutoRow(u) == [how |-> "auto", name |-> list[u]]

\* refresh_user_identity_map() in the loop: no form comes in between.
RefreshAtOnce ==
  /\ At("task", "map") /\ holder = "none"
  /\ umap' = [u \in Users |-> IF umap[u].how = "manual" THEN umap[u] ELSE AutoRow(u)]
  /\ draft' = umap' /\ todo' = << >> /\ Go("judge")
  /\ UNCHANGED <<holder, form, setVars, upstream, reqs, early, list, judged, due>>

(* Mutant of Look: rows made by hand are not spared. *)
LookPast ==
  /\ At("cli", "map") /\ todo # << >>
  /\ Go("put")
  /\ UNCHANGED <<holder, form, setVars, mapVars, draft, list, todo, judged, due>>

\* The same in another process: the row is looked up, and if it was not made
\* by hand, upserted.  The first upsert begins the transaction.
Look ==
  /\ At("cli", "map") /\ todo # << >>
  /\ IF draft[Head(todo)].how = "manual"
     THEN todo' = Tail(todo) /\ UNCHANGED run
     ELSE Go("put") /\ UNCHANGED todo
  /\ UNCHANGED <<holder, form, setVars, mapVars, draft, list, judged, due>>

Put ==
  /\ At("cli", "put")
  /\ holder' = "cli"
  /\ draft' = [draft EXCEPT ![Head(todo)] = AutoRow(Head(todo))]
  /\ todo' = Tail(todo) /\ Go("map")
  /\ UNCHANGED <<form, setVars, mapVars, list, judged, due>>

CommitMap ==
  /\ At("cli", "map") /\ todo = << >>
  /\ umap' = draft /\ holder' = "none" /\ Go("judge")
  /\ UNCHANGED <<form, setVars, upstream, reqs, early, draft, list, todo, judged, due>>

\* The derived steps, by config.watch.
Judge(who) ==
  /\ At(who, "judge") \/ At(who, "missed")
  /\ judged' = Env /\ list' = NoList /\ Go("done")
  /\ due' = Env
  /\ UNCHANGED <<holder, form, setVars, mapVars, draft, todo>>

RunStep(who) ==
  /\ \/ OpenPull(who) \/ ClosePull(who)
     \/ ListUsers(who) \/ PullRequests(who) \/ MissUsers(who)
     \/ who = "task" /\ RefreshAtOnce
     \/ who = "cli" /\ (Look \/ Put \/ CommitMap)
     \/ Judge(who)
  /\ UNCHANGED around

\* A process dies with all that it does; its transaction is rolled back.
Die(who) ==
  /\ run.who = who /\ run.at \notin Over
  /\ holder' = "none" /\ draft' = umap /\ list' = NoList /\ todo' = << >> /\ Go("dead")
  /\ due' = Env
  /\ IF who = "task" THEN form' = NoForm /\ cut' = cut \cup SavedKeys ELSE UNCHANGED <<form, cut>>
  /\ UNCHANGED <<store, logged, mapVars, judged>>

FormsNext ==
  /\ \/ SubmitSettings \/ FormStep
     \/ \E u \in Users : SubmitMapping(u) \/ Rename(u)
     \/ \E who \in {"task", "cli"} : BeginRun(who) \/ RunStep(who) \/ Die(who)
  /\ UNCHANGED around

\* The loop is fair to the task between two forms, which it is ready to go on
\* with again and again; SQLite gives up waiting.
FormsSpec ==
  /\ FormsInit /\ [][FormsNext]_formVars
  /\ WF_formVars(FormStep) /\ SF_formVars(RunStep("task")) /\ WF_formVars(RunStep("cli"))

-----------------------------------------------------------------------------
\* The audit log tells the value of each setting, except of the keys that a
\* form saved before it was refused, timed out or died: save_settings() and the
\* audit row are a transaction per key and one more.
SavedIsAudited ==
  {k \in Keys : store[k] # logged[k]} \subseteq cut \cup SavedKeys

\* A mapping by hand is lost only to a run of another process, which looked
\* the row up before the mapping and rewrites it after; and since its first
\* upsert locks the others out, a run loses one mapping at most.
ManualLostOnlyByRace ==
  [][LET lost == {u \in Users : umap[u].how = "manual" /\ umap'[u].how # "manual"}
     IN lost # {} => run.who = "cli" /\ Cardinality(lost) = 1]_formVars

\* When a run has refreshed the map, a mapping joins the requests of its user,
\* unless the user was renamed while the run listed them, or the mapping is by
\* hand and the user was renamed since the last refresh before it, or there was
\* none: a row made by hand keeps the name that it found.
Joins(u) == umap[u].name = reqs[u]

MappingTakesEffect ==
  run.at = "judge" =>
    \A u \in Users :
      \/ reqs[u] # list[u] \/ Joins(u)
      \/ umap[u].how = "manual" /\ (u \in early \/ umap[u].name \in 0 .. list[u] - 1)

\* Everyone gets on: the task that holds the write lock waits for the loop, the
\* form that holds the loop waits for the write lock, and still the form is
\* answered and the run ends.
EveryoneGetsOn ==
  /\ form.kind # "none" ~> form.kind = "none"
  /\ run.at \notin Over ~> run.at \in Over

\* What PLAN.md and settings_store.py say of the settings: what is in the table
\* takes precedence over the environment.  A run judges by the settings that
\* were in effect when it began.
SavedSettingsRule ==
  [][run.at # "done" /\ run'.at = "done" => judged' = due]_formVars
=============================================================================
