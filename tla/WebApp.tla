------------------------------- MODULE WebApp -------------------------------
(***************************************************************************)
(* The life of the web process beside a command line: it migrates the      *)
(* database before it serves (the lifespan of app.py), and the login       *)
(* throttle lives and dies with it.                                        *)
(***************************************************************************)
EXTENDS Migrations, LoginThrottle

CONSTANT web    \* the process of the web application

ASSUME WebAssumption == web \in Procs

webVars == <<migVars, logVars>>

WebInit == MigInit /\ LogInit

Migrating ==
  /\ \E p \in Procs : Start(p) \/ Migrate(p) \/ Store(p)
  /\ UNCHANGED logVars

\* The memory of the throttle is that of the web process.
Stopping ==
  \E p \in Procs :
    /\ Stop(p)
    /\ IF p = web THEN Forget ELSE UNCHANGED logVars

\* Logins are served once the migrations are done.
Serving ==
  /\ proc[web] = Up
  /\ Tick \/ \E c \in Clients : WrongPassword(c) \/ RightPassword(c)
  /\ UNCHANGED migVars

WebNext == Migrating \/ Stopping \/ Serving

WebSpec == WebInit /\ [][WebNext]_webVars
=============================================================================
