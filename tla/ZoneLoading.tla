----------------------------- MODULE ZoneLoading -----------------------------
(***************************************************************************)
(* The start of named: the server task publishes the views and schedules   *)
(* the load of their zones (load_zones, dns_zt_asyncload), the load tasks  *)
(* read the zones and count down loads_pending (zone_asyncload,            *)
(* doneloading), and the profiler thread, which no one synchronises with,  *)
(* sleeps a second and then walks the zones of every view once.            *)
(***************************************************************************)
EXTENDS Integers, Sequences, FiniteSets

CONSTANTS
    Views,      \* the view list: a sequence of sets of zones
    Masters,    \* the zones of type master, which alone the profiler visits
    CanCancel,  \* TRUE if a load event may be cancelled by a shutdown
    Hoisted     \* TRUE if the compiler reads loads_pending once before the loop

VIndex == DOMAIN Views
Zones == UNION {Views[w] : w \in VIndex}

ASSUME ViewsAssumption ==
    /\ Views \in Seq(SUBSET Zones) /\ IsFiniteSet(Zones)
    /\ \A u, w \in VIndex : u # w => Views[u] \intersect Views[w] = {}

ViewOf(z) == CHOOSE v \in VIndex : z \in Views[v]

VARIABLES
    server,         \* where the server task is
    v,              \* the view that load_zones schedules
    refs,           \* zl->refs
    running,        \* how often view_loaded reported "all zones loaded"
    loads_pending,  \* per view
    loaddone,       \* per view: the callback is registered
    zone,           \* per zone: "new", "queued", "read", "done" or "cancelled"
    db,             \* per zone: zone->db is valid
    prof,           \* where the profiler thread is
    pv,             \* the view it works on
    toscan,         \* zones of that view it has not visited yet
    seen            \* zones whose RRsets are in its list

svars == <<server, v, refs, running>>
tvars == <<loads_pending, loaddone, zone, db>>
pvars == <<prof, pv, toscan, seen>>
vars == <<server, v, refs, running, loads_pending, loaddone, zone, db,
          prof, pv, toscan, seen>>

Init ==
    /\ server = "create" /\ v = 1 /\ refs = 0 /\ running = 0
    /\ loads_pending = [w \in VIndex |-> 0]
    /\ loaddone = [w \in VIndex |-> FALSE]
    /\ zone = [z \in Zones |-> "new"]
    /\ db = [z \in Zones |-> FALSE]
    /\ prof = "sleep" /\ pv = 1 /\ toscan = {} /\ seen = {}

-----------------------------------------------------------------------------
(* The server task; a crash or exit of the profiler thread ends it too.     *)

Alive == prof \notin {"crash", "exit"}

(* ns_server_create sets ns_g_server, with an empty view list.              *)
ns_server_create ==
    /\ Alive /\ server = "create" /\ server' = "configure"
    /\ UNCHANGED <<v, refs, running, tvars, pvars>>

(* load_configuration ends with the new view list in place.                 *)
load_configuration ==
    /\ Alive /\ server = "configure" /\ server' = "load"
    /\ UNCHANGED <<v, refs, running, tvars, pvars>>

(* load_zones takes task-exclusive mode and its own reference on zl.        *)
load_zonesUncounted ==
    /\ Alive /\ server = "load" /\ server' = "view"
    /\ v' = 1 /\ refs' = 0
    /\ UNCHANGED <<running, tvars, pvars>>

load_zones ==
    /\ Alive /\ server = "load" /\ server' = "view"
    /\ v' = 1 /\ refs' = 1
    /\ UNCHANGED <<running, tvars, pvars>>

(* One view: a reference for it, then dns_zt_asyncload                      *)
BeginView ==
    /\ Alive /\ server = "view" /\ v <= Len(Views)
    /\ server' = "zones" /\ refs' = refs + 1
    /\ UNCHANGED <<v, running, tvars, pvars>>

(* asyncload: scheduling fails if memory runs out, and the zone is skipped. *)
asyncload(z) ==
    /\ Alive /\ server = "zones" /\ z \in Views[v] /\ zone[z] = "new"
    /\ \/ /\ zone' = [zone EXCEPT ![z] = "queued"]
          /\ loads_pending' = [loads_pending EXCEPT ![v] = @ + 1]
       \/ /\ zone' = [zone EXCEPT ![z] = "done"]
          /\ UNCHANGED loads_pending
    /\ UNCHANGED <<svars, loaddone, db, pvars>>

(* view_loaded drops a reference; the last one reports the end of loading.  *)
view_loaded ==
    /\ refs' = refs - 1
    /\ running' = IF refs' = 0 THEN running + 1 ELSE running

EndView ==
    /\ Alive /\ server = "zones" /\ \A z \in Views[v] : zone[z] # "new"
    /\ server' = "view" /\ v' = v + 1
    /\ IF loads_pending[v] # 0
          THEN loaddone' = [loaddone EXCEPT ![v] = TRUE] /\ UNCHANGED <<refs, running>>
          ELSE view_loaded /\ UNCHANGED loaddone
    /\ UNCHANGED <<loads_pending, zone, db, pvars>>

(* load_zones drops its own reference and leaves task-exclusive mode.       *)
EndLoadKeeping ==
    /\ Alive /\ server = "view" /\ v > Len(Views)
    /\ server' = "run" /\ UNCHANGED refs
    /\ UNCHANGED <<v, running, tvars, pvars>>

EndLoad ==
    /\ Alive /\ server = "view" /\ v > Len(Views)
    /\ server' = "run" /\ refs' = refs - 1
    /\ UNCHANGED <<v, running, tvars, pvars>>

-----------------------------------------------------------------------------
(* The load tasks, which run when no task is exclusive                      *)

(* zone_asyncload: zone_load reads the file, or fails and leaves no db ...  *)
zone_loadSilent(z) ==
    /\ Alive /\ server = "run" /\ zone[z] = "queued"
    /\ \E ok \in BOOLEAN :
          /\ db' = [db EXCEPT ![z] = ok]
          /\ zone' = [zone EXCEPT ![z] = IF ok THEN "read" ELSE "done"]
    /\ UNCHANGED <<svars, loads_pending, loaddone, pvars>>

zone_load(z) ==
    /\ Alive /\ server = "run" /\ zone[z] = "queued"
    /\ zone' = [zone EXCEPT ![z] = "read"]
    /\ \E ok \in BOOLEAN : db' = [db EXCEPT ![z] = ok]
    /\ UNCHANGED <<svars, loads_pending, loaddone, pvars>>

(* ... or the event was cancelled, and the zone table is not told ...       *)
CancelLoad(z) ==
    /\ CanCancel
    /\ Alive /\ server = "run" /\ zone[z] = "queued"
    /\ zone' = [zone EXCEPT ![z] = "cancelled"]
    /\ UNCHANGED <<svars, loads_pending, loaddone, db, pvars>>

(* ... and doneloading counts down under the write lock, which the          *)
(* profiler's read lock holds up.                                           *)
doneloading(z) ==
    LET w == ViewOf(z)
    IN  /\ Alive /\ server = "run" /\ zone[z] = "read"
        /\ ~(prof = "scan" /\ pv = w)
        /\ zone' = [zone EXCEPT ![z] = "done"]
        /\ loads_pending' = [loads_pending EXCEPT ![w] = @ - 1]
        /\ IF loads_pending'[w] = 0 /\ loaddone[w]
              THEN view_loaded /\ loaddone' = [loaddone EXCEPT ![w] = FALSE]
              ELSE UNCHANGED <<refs, running, loaddone>>
        /\ UNCHANGED <<server, v, db, pvars>>

-----------------------------------------------------------------------------
(* The profiler thread                                                     *)

(* sleep(1) ends at any time: ns_g_server may not exist yet, or have no     *)
(* views yet.                                                               *)
EndSleep ==
    /\ prof = "sleep"
    /\ prof' = CASE server = "create" -> "crash"
                 [] server = "configure" \/ Views = << >> -> "update"
                 [] OTHER -> "wait"
    /\ UNCHANGED <<svars, tvars, pv, toscan, seen>>

(* The busy wait for loads_pending; then the read lock, and exit(1) for an  *)
(* empty zone table.                                                        *)
WaitLoads ==
    /\ prof = "wait"
    /\ IF loads_pending[pv] = 0
          THEN /\ prof' = IF Views[pv] = {} THEN "exit" ELSE "scan"
               /\ toscan' = Views[pv]
          ELSE /\ Hoisted
               /\ prof' = "spin" /\ UNCHANGED toscan
    /\ UNCHANGED <<svars, tvars, pv, seen>>

(* A zone without a valid db is skipped, for good.                          *)
ScanZone(z) ==
    /\ prof = "scan" /\ z \in toscan
    /\ toscan' = toscan \ {z}
    /\ seen' = IF db[z] /\ z \in Masters THEN seen \union {z} ELSE seen
    /\ UNCHANGED <<svars, tvars, prof, pv>>

EndScanAgain ==
    /\ prof = "scan" /\ toscan = {}
    /\ prof' = IF pv < Len(Views) THEN "wait" ELSE "update"
    /\ UNCHANGED <<svars, tvars, pv, toscan, seen>>

EndScan ==
    /\ prof = "scan" /\ toscan = {}
    /\ IF pv < Len(Views) THEN pv' = pv + 1 /\ prof' = "wait"
                          ELSE prof' = "update" /\ UNCHANGED pv
    /\ UNCHANGED <<svars, tvars, toscan, seen>>

Server == ns_server_create \/ load_configuration \/ load_zones \/ BeginView
          \/ (\E z \in Zones : asyncload(z)) \/ EndView \/ EndLoad
Load(z) == zone_load(z) \/ CancelLoad(z) \/ doneloading(z)
Profile == EndSleep \/ WaitLoads \/ (\E z \in Zones : ScanZone(z)) \/ EndScan

Next == Server \/ (\E z \in Zones : Load(z)) \/ Profile

Spec == Init /\ [][Next]_vars
             /\ WF_vars(Server) /\ WF_vars(Profile)
             /\ \A z \in Zones : WF_vars(Load(z))

-----------------------------------------------------------------------------
(* Properties                                                              *)

TypeOK ==
    /\ server \in {"create", "configure", "load", "view", "zones", "run"}
    /\ v \in 1..(Len(Views) + 1)
    /\ refs \in 0..(Len(Views) + 1) /\ running \in 0..1
    /\ loads_pending \in [VIndex -> 0..Cardinality(Zones)]
    /\ loaddone \in [VIndex -> BOOLEAN]
    /\ zone \in [Zones -> {"new", "queued", "read", "done", "cancelled"}]
    /\ db \in [Zones -> BOOLEAN]
    /\ prof \in {"sleep", "wait", "scan", "update", "spin", "crash", "exit"}
    /\ pv \in VIndex \union {1}
    /\ toscan \subseteq Zones /\ seen \subseteq Zones

(* The references on zl count the views that are still to report and, until *)
(* it is done, load_zones itself: zl is neither freed under a view that     *)
(* will report nor kept after the last one (isc_refcount_destroy).          *)
RefsCountViews ==
    /\ TypeOK
    /\ refs = Cardinality({w \in VIndex : loaddone[w]})
              + (IF server \in {"view", "zones"} THEN 1 ELSE 0)
              + (IF server = "zones" THEN 1 ELSE 0)

(* The report "all zones loaded" comes after the load of every zone of      *)
(* every view has ended, and the profiler's lock cannot make it early.      *)
RunningMeansLoaded ==
    running > 0 => \A z \in Zones : zone[z] = "done"

Cancelled == \E z \in Zones : zone[z] = "cancelled"

(* Once a zone had to be loaded, named reports that it is running, however  *)
(* the profiler's read lock holds up doneloading, unless a load is          *)
(* cancelled or the profiler thread ends the process.                       *)
EventuallyRunning ==
    (\E z \in Zones : zone[z] = "queued") ~> (running = 1 \/ ~Alive \/ Cancelled)

(* The profiler reaches its polling loop or ends the process, whatever the  *)
(* order in which the views finish, unless a load is cancelled or the       *)
(* compiler's single read of loads_pending makes it spin.                   *)
ProfilerStarts == <>(prof \in {"update", "crash", "exit", "spin"} \/ Cancelled)

(* The profiler looks at a view only when all its zones are loaded          *)
(* (profiler.c:492: "wait till load is complete").                          *)
ScanAfterLoad ==
    prof = "scan" => \A z \in Views[pv] : zone[z] = "done"
=============================================================================
