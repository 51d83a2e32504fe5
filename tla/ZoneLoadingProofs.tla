-------------------------- MODULE ZoneLoadingProofs --------------------------
(***************************************************************************)
(* For any views and zones: the two levels of counting in the load of the  *)
(* zones (loads_pending of each zone table, refs of zl) are exact, so that *)
(* the end of loading is reported once and not early.  Neither count is    *)
(* inductive alone: a view that is counted in refs is one whose callback   *)
(* is registered, and that one is one with loads outstanding.              *)
(***************************************************************************)
EXTENDS ZoneLoading, FiniteSetTheorems, SequenceTheorems, TLAPS

(* The zones of view w whose end doneloading has not counted, and the views *)
(* that are to call view_loaded from there.                                 *)
Owed(w) == {z \in Views[w] : zone[z] \in {"queued", "read", "cancelled"}}
Reporting == {w \in VIndex : loaddone[w]}

Types ==
    /\ server \in {"create", "configure", "load", "view", "zones", "run"}
    /\ v \in 1..(Len(Views) + 1)
    /\ refs \in Int /\ running \in 0..1
    /\ loads_pending \in [VIndex -> Int]
    /\ loaddone \in [VIndex -> BOOLEAN]
    /\ zone \in [Zones -> {"new", "queued", "read", "done", "cancelled"}]
    /\ db \in [Zones -> BOOLEAN]

ProfilerInv ==
    /\ prof \in {"sleep", "wait", "scan", "update", "spin", "crash", "exit"}
    /\ pv \in VIndex \union {1} /\ (prof \in {"wait", "scan"} => pv \in VIndex)
    /\ toscan \subseteq Zones /\ seen \subseteq Zones

(* How far load_zones has come: every view behind it is scheduled, and      *)
(* reports later if and only if it has loads outstanding.                   *)
PhaseInv ==
    /\ server \in {"create", "configure", "load"} => v = 1 /\ refs = 0
    /\ server = "zones" => v \in VIndex
    /\ server = "run" => v = Len(Views) + 1
    /\ \A w \in VIndex :
          /\ w < v => /\ \A z \in Views[w] : zone[z] # "new"
                      /\ loaddone[w] <=> loads_pending[w] # 0
          /\ w >= v => ~loaddone[w]

OwedInv == \A w \in VIndex : loads_pending[w] = Cardinality(Owed(w))

RefsInv == refs = Cardinality(Reporting)
                  + (IF server \in {"view", "zones"} THEN 1 ELSE 0)
                  + (IF server = "zones" THEN 1 ELSE 0)

RunningInv == running > 0 => server = "run" /\ \A z \in Zones : zone[z] = "done"

IndInv == Types /\ ProfilerInv /\ PhaseInv /\ OwedInv /\ RefsInv /\ RunningInv

(* The views are numbered from 1 and every zone is in one of them. *)
LEMMA ViewFacts ==
    /\ Len(Views) \in Nat /\ VIndex = 1..Len(Views) /\ IsFiniteSet(VIndex)
    /\ \A w \in VIndex : Views[w] \subseteq Zones
    /\ \A z \in Zones : ViewOf(z) \in VIndex /\ z \in Views[ViewOf(z)]
    /\ \A w \in VIndex : \A z \in Views[w] : ViewOf(z) = w
    /\ Views # << >> => 1 \in VIndex
<1>1. Len(Views) \in Nat /\ VIndex = 1..Len(Views)
  BY ViewsAssumption DEF VIndex
<1>2. IsFiniteSet(VIndex)
  BY <1>1, FS_Interval
<1>3. \A w \in VIndex : Views[w] \subseteq Zones
  BY DEF Zones
<1>4. \A z \in Zones : \E w \in VIndex : z \in Views[w]
  BY DEF Zones
<1>5. \A z \in Zones : ViewOf(z) \in VIndex /\ z \in Views[ViewOf(z)]
  BY <1>4 DEF ViewOf
<1>6. \A w \in VIndex : \A z \in Views[w] : ViewOf(z) = w
  BY <1>3, <1>5, ViewsAssumption
<1>7. Views # << >> => Len(Views) \in Nat \ {0}
  BY ViewsAssumption, EmptySeq
<1> QED
  BY <1>1, <1>2, <1>3, <1>5, <1>6, <1>7

(* What is counted is finite. *)
LEMMA CountsFinite ==
    /\ IsFiniteSet(Reporting) /\ Cardinality(Reporting) \in Nat
    /\ \A w \in VIndex : /\ IsFiniteSet(Owed(w)) /\ Cardinality(Owed(w)) \in Nat
                         /\ Cardinality(Owed(w)) <= Cardinality(Zones)
<1>1. IsFiniteSet(Reporting) /\ Cardinality(Reporting) \in Nat
  BY ViewFacts, FS_Subset, FS_CardinalityType DEF Reporting
<1>2. ASSUME NEW w \in VIndex
      PROVE  /\ IsFiniteSet(Owed(w)) /\ Cardinality(Owed(w)) \in Nat
             /\ Cardinality(Owed(w)) <= Cardinality(Zones)
  <2>1. Owed(w) \in SUBSET Zones
    BY ViewFacts DEF Owed
  <2> QED
    BY <2>1, ViewsAssumption, FS_Subset, FS_CardinalityType
<1> QED
  BY <1>1, <1>2

(* The invariant gives the properties, the bounds of the types included. *)
LEMMA InvImplies == IndInv => RefsCountViews /\ RunningMeansLoaded
<1> SUFFICES ASSUME IndInv PROVE RefsCountViews /\ RunningMeansLoaded
  OBVIOUS
<1> USE DEF IndInv
<1>1. Reporting \in SUBSET (1..(v - 1))
  BY ViewFacts DEF Types, PhaseInv, Reporting
<1>2. Cardinality(Reporting) <= v - 1
  <2>1. v \in Int /\ v >= 1
    BY ViewFacts DEF Types
  <2>2. IsFiniteSet(1..(v - 1)) /\ Cardinality(1..(v - 1)) = v - 1
    BY <2>1, FS_Interval
  <2>3. Cardinality(Reporting) <= Cardinality(1..(v - 1))
    BY <1>1, <2>2, FS_Subset
  <2> QED
    BY <2>2, <2>3
<1>3. refs \in 0..(Len(Views) + 1)
  <2>1. CASE server \in {"create", "configure", "load"}
    BY <2>1, ViewFacts DEF PhaseInv
  <2>2. CASE server = "view"
    BY <2>2, <1>2, ViewFacts, CountsFinite DEF Types, RefsInv
  <2>3. CASE server = "zones"
    BY <2>3, <1>2, ViewFacts, CountsFinite DEF Types, PhaseInv, RefsInv
  <2>4. CASE server = "run"
    BY <2>4, <1>2, ViewFacts, CountsFinite DEF Types, RefsInv
  <2> QED
    BY <2>1, <2>2, <2>3, <2>4 DEF Types
<1>4. loads_pending \in [VIndex -> 0..Cardinality(Zones)]
  <2>1. Cardinality(Zones) \in Nat
    BY ViewsAssumption, FS_CardinalityType
  <2>2. \A w \in VIndex : loads_pending[w] \in 0..Cardinality(Zones)
    BY <2>1, CountsFinite DEF OwedInv
  <2> QED
    BY <2>2 DEF Types
<1>5. TypeOK
  BY <1>3, <1>4 DEF Types, ProfilerInv, TypeOK
<1>6. RefsCountViews
  BY <1>5 DEF RefsInv, Reporting, RefsCountViews
<1> QED
  BY <1>6 DEF RunningInv, RunningMeansLoaded, Types

(* At the start nothing is scheduled. *)
LEMMA InitInv == Init => IndInv
<1> SUFFICES ASSUME Init PROVE IndInv
  OBVIOUS
<1>1. Types
  BY ViewFacts DEF Init, Types
<1>2. ProfilerInv
  BY DEF Init, ProfilerInv
<1>3. PhaseInv
  BY ViewFacts DEF Init, PhaseInv
<1>4. OwedInv
  <2>1. \A w \in VIndex : Owed(w) = {}
    BY ViewFacts DEF Init, Owed
  <2> QED
    BY <2>1, FS_EmptySet DEF Init, OwedInv
<1>5. RefsInv
  <2>1. Reporting = {}
    BY DEF Init, Reporting
  <2> QED
    BY <2>1, FS_EmptySet DEF Init, RefsInv
<1> QED
  BY <1>1, <1>2, <1>3, <1>4, <1>5 DEF Init, IndInv, RunningInv

(* The profiler thread changes nothing that loading counts. *)
LEMMA ProfilerSteps == ASSUME IndInv, Profile PROVE IndInv'
<1>1. UNCHANGED <<server, v, refs, running, loads_pending, loaddone, zone, db>>
  BY DEF Profile, EndSleep, WaitLoads, ScanZone, EndScan, svars, tvars
<1>2. ProfilerInv'
  <2>1. CASE EndSleep
    BY <2>1, ViewFacts DEF EndSleep, IndInv, ProfilerInv
  <2>2. CASE WaitLoads
    BY <2>2, ViewFacts DEF WaitLoads, IndInv, ProfilerInv
  <2>3. CASE \E z \in Zones : ScanZone(z)
    BY <2>3 DEF ScanZone, IndInv, ProfilerInv
  <2>4. CASE EndScan
    BY <2>4, ViewFacts DEF EndScan, IndInv, ProfilerInv
  <2> QED
    BY <2>1, <2>2, <2>3, <2>4 DEF Profile
<1>3. Types' /\ PhaseInv' /\ RunningInv'
  BY <1>1 DEF IndInv, Types, PhaseInv, RunningInv
<1>4. (\A w \in VIndex : Owed(w)' = Owed(w)) /\ Reporting' = Reporting
  BY <1>1 DEF Owed, Reporting
<1>5. OwedInv' /\ RefsInv'
  BY <1>1, <1>4 DEF IndInv, OwedInv, RefsInv
<1> QED
  BY <1>2, <1>3, <1>5 DEF IndInv

(* The steps of the server task between the zones. *)
LEMMA ServerSteps ==
    ASSUME IndInv,
           ns_server_create \/ load_configuration \/ load_zones \/ BeginView \/ EndLoad
    PROVE  IndInv'
<1>1. UNCHANGED <<running, loads_pending, loaddone, zone, db, prof, pv, toscan, seen>>
  BY DEF ns_server_create, load_configuration, load_zones, BeginView, EndLoad, tvars,
         pvars
<1>2. ProfilerInv'
  BY <1>1 DEF IndInv, ProfilerInv
<1>3. (\A w \in VIndex : Owed(w)' = Owed(w)) /\ Reporting' = Reporting
  BY <1>1 DEF Owed, Reporting
<1>4. OwedInv'
  BY <1>1, <1>3 DEF IndInv, OwedInv
<1>5. Types'
  BY <1>1, ViewFacts DEF IndInv, Types, ns_server_create, load_configuration,
                         load_zones, BeginView, EndLoad
<1>6. server # "run" /\ running = 0
  BY DEF ns_server_create, load_configuration, load_zones, BeginView, EndLoad, IndInv,
         Types, RunningInv
<1>7. RunningInv'
  BY <1>1, <1>6 DEF RunningInv
<1>8. PhaseInv' /\ RefsInv'
  <2>1. CASE ns_server_create \/ load_configuration
    BY <2>1, <1>1, <1>3 DEF ns_server_create, load_configuration, IndInv, PhaseInv, RefsInv
  <2>2. CASE load_zones
    BY <2>2, <1>1, <1>3, CountsFinite DEF load_zones, IndInv, PhaseInv, RefsInv
  <2>3. CASE BeginView
    BY <2>3, <1>1, <1>3, ViewFacts, CountsFinite DEF BeginView, IndInv, Types, PhaseInv, RefsInv
  <2>4. CASE EndLoad
    BY <2>4, <1>1, <1>3, ViewFacts, CountsFinite DEF EndLoad, IndInv, Types, PhaseInv, RefsInv
  <2> QED
    BY <2>1, <2>2, <2>3, <2>4
<1> QED
  BY <1>2, <1>4, <1>5, <1>7, <1>8 DEF IndInv

(* Scheduling a zone: counted when it is queued. *)
LEMMA ScheduleStep == ASSUME IndInv, NEW z \in Zones, asyncload(z) PROVE IndInv'
<1>1. /\ UNCHANGED <<server, v, refs, running, loaddone, db, prof, pv, toscan, seen>>
      /\ server = "zones" /\ z \in Views[v] /\ zone[z] = "new"
  BY DEF asyncload, svars, pvars
<1>2. v \in VIndex /\ ViewOf(z) = v
  BY <1>1, ViewFacts DEF IndInv, PhaseInv
<1>3. PICK s \in {"queued", "done"} :
         /\ zone' = [zone EXCEPT ![z] = s]
         /\ loads_pending' = IF s = "queued" THEN [loads_pending EXCEPT ![v] = @ + 1]
                                             ELSE loads_pending
  BY DEF asyncload
<1>4. ProfilerInv' /\ Types'
  BY <1>1, <1>2, <1>3 DEF IndInv, ProfilerInv, Types
<1>5. Reporting' = Reporting
  BY <1>1 DEF Reporting
<1>6. RefsInv' /\ RunningInv'
  BY <1>1, <1>5 DEF IndInv, RefsInv, RunningInv
<1>7. ASSUME NEW w \in VIndex PROVE loads_pending'[w] = Cardinality(Owed(w)')
  <2>1. CASE w # v
    <3>1. z \notin Views[w]
      BY <1>2, <2>1, ViewFacts
    <3>2. Owed(w)' = Owed(w)
      BY <1>3, <3>1, ViewFacts DEF IndInv, Types, Owed
    <3> QED
      BY <1>2, <1>3, <2>1, <3>2 DEF IndInv, Types, OwedInv
  <2>2. CASE w = v /\ s = "queued"
    <3>1. Owed(w)' = Owed(w) \cup {z} /\ z \notin Owed(w)
      BY <1>1, <1>2, <1>3, <2>2, ViewFacts DEF IndInv, Types, Owed
    <3>2. Cardinality(Owed(w)') = Cardinality(Owed(w)) + 1
      BY <1>2, <3>1, CountsFinite, FS_AddElement
    <3> QED
      BY <1>2, <1>3, <2>2, <3>2 DEF IndInv, Types, OwedInv
  <2>3. CASE w = v /\ s = "done"
    <3>1. Owed(w)' = Owed(w)
      BY <1>1, <1>2, <1>3, <2>3, ViewFacts DEF IndInv, Types, Owed
    <3> QED
      BY <1>2, <1>3, <2>3, <3>1 DEF IndInv, Types, OwedInv
  <2> QED
    BY <2>1, <2>2, <2>3
<1>8. PhaseInv'
  <2>1. ASSUME NEW w \in VIndex, w < v
        PROVE  /\ \A y \in Views[w] : zone'[y] # "new"
               /\ loads_pending'[w] = loads_pending[w]
    BY <1>2, <1>3, <2>1, ViewFacts DEF IndInv, Types, PhaseInv
  <2> QED
    BY <1>1, <1>2, <2>1 DEF IndInv, PhaseInv
<1> QED
  BY <1>4, <1>6, <1>7, <1>8 DEF IndInv, OwedInv

(* A view is scheduled: it reports at once if nothing is outstanding, and   *)
(* then never the end, since load_zones still has its own reference.        *)
LEMMA ViewStep == ASSUME IndInv, EndView PROVE IndInv'
<1>1. /\ server = "zones" /\ server' = "view" /\ v' = v + 1
      /\ \A z \in Views[v] : zone[z] # "new"
      /\ UNCHANGED <<loads_pending, zone, db, prof, pv, toscan, seen>>
  BY DEF EndView, pvars
<1>2. v \in VIndex /\ v \in 1..Len(Views) /\ ~loaddone[v]
  BY <1>1, ViewFacts DEF IndInv, Types, PhaseInv
<1>3. ProfilerInv' /\ OwedInv'
  <2>1. \A w \in VIndex : Owed(w)' = Owed(w)
    BY <1>1 DEF Owed
  <2> QED
    BY <1>1, <2>1 DEF IndInv, ProfilerInv, OwedInv
<1>4. refs = Cardinality(Reporting) + 2 /\ running = 0
  BY <1>1, CountsFinite DEF IndInv, RefsInv, RunningInv, Types
<1>5. CASE loads_pending[v] # 0
  <2>1. loaddone' = [loaddone EXCEPT ![v] = TRUE] /\ UNCHANGED <<refs, running>>
    BY <1>5 DEF EndView
  <2>2. Reporting' = Reporting \cup {v} /\ v \notin Reporting
    BY <1>2, <2>1 DEF IndInv, Types, Reporting
  <2>3. Cardinality(Reporting') = Cardinality(Reporting) + 1
    BY <2>2, CountsFinite, FS_AddElement
  <2>4. Types' /\ RunningInv'
    BY <1>1, <1>2, <1>4, <2>1, ViewFacts DEF IndInv, Types, RunningInv
  <2>5. RefsInv'
    BY <1>1, <1>4, <2>1, <2>3, CountsFinite DEF RefsInv
  <2>6. PhaseInv'
    BY <1>1, <1>2, <1>5, <2>1, ViewFacts DEF IndInv, Types, PhaseInv
  <2> QED
    BY <1>3, <2>4, <2>5, <2>6 DEF IndInv
<1>6. CASE loads_pending[v] = 0
  <2>1. refs' = refs - 1 /\ refs' # 0 /\ UNCHANGED <<running, loaddone>>
    BY <1>4, <1>6, CountsFinite DEF EndView, view_loaded
  <2>2. Reporting' = Reporting
    BY <2>1 DEF Reporting
  <2>3. Types' /\ RunningInv'
    BY <1>1, <1>2, <1>4, <2>1, ViewFacts DEF IndInv, Types, RunningInv
  <2>4. RefsInv'
    BY <1>1, <1>4, <2>1, <2>2, CountsFinite DEF RefsInv
  <2>5. PhaseInv'
    BY <1>1, <1>2, <1>6, <2>1, ViewFacts DEF IndInv, Types, PhaseInv
  <2> QED
    BY <1>3, <2>3, <2>4, <2>5 DEF IndInv
<1> QED
  BY <1>5, <1>6

(* A load that ends or is cancelled stays outstanding until doneloading. *)
LEMMA LoadStep ==
    ASSUME IndInv, NEW z \in Zones, zone_load(z) \/ CancelLoad(z)
    PROVE  IndInv'
<1>1. /\ UNCHANGED <<server, v, refs, running, loads_pending, loaddone, prof, pv,
                     toscan, seen>>
      /\ zone[z] = "queued"
  BY DEF zone_load, CancelLoad, svars, pvars
<1>2. PICK s \in {"read", "cancelled"} : zone' = [zone EXCEPT ![z] = s]
  BY DEF zone_load, CancelLoad
<1>3. db' \in [Zones -> BOOLEAN]
  BY DEF zone_load, CancelLoad, IndInv, Types
<1>4. Types' /\ ProfilerInv'
  BY <1>1, <1>2, <1>3 DEF IndInv, Types, ProfilerInv
<1>5. \A y \in Zones : zone'[y] = IF y = z THEN s ELSE zone[y]
  BY <1>2 DEF IndInv, Types
<1>6. \A w \in VIndex : Owed(w)' = Owed(w)
  BY <1>1, <1>5, ViewFacts DEF Owed
<1>7. Reporting' = Reporting
  BY <1>1 DEF Reporting
<1>8. OwedInv' /\ RefsInv'
  BY <1>1, <1>6, <1>7 DEF IndInv, OwedInv, RefsInv
<1>9. PhaseInv'
  BY <1>1, <1>5, ViewFacts DEF IndInv, PhaseInv
<1>10. RunningInv'
  BY <1>1 DEF IndInv, RunningInv
<1> QED
  BY <1>4, <1>8, <1>9, <1>10 DEF IndInv

(* doneloading: the last load of a view makes it report, and the last view  *)
(* to report finds every zone of every view done.                           *)
LEMMA DoneStep == ASSUME IndInv, NEW z \in Zones, doneloading(z) PROVE IndInv'
<1> DEFINE w == ViewOf(z)
<1>1. /\ server = "run" /\ zone[z] = "read" /\ zone' = [zone EXCEPT ![z] = "done"]
      /\ loads_pending' = [loads_pending EXCEPT ![w] = @ - 1]
      /\ UNCHANGED <<server, v, db, prof, pv, toscan, seen>>
  BY DEF doneloading, pvars
<1>2. w \in VIndex /\ z \in Views[w]
  BY ViewFacts
<1>3. \A y \in Zones : zone'[y] = IF y = z THEN "done" ELSE zone[y]
  BY <1>1 DEF IndInv, Types
<1>4. \A u \in VIndex : loads_pending'[u] = loads_pending[u] - IF u = w THEN 1 ELSE 0
  BY <1>1, <1>2 DEF IndInv, Types
<1>5. running = 0
  BY <1>1 DEF IndInv, RunningInv, Types
<1>6. ASSUME NEW u \in VIndex PROVE loads_pending'[u] = Cardinality(Owed(u)')
  <2>1. CASE u = w
    <3>1. Owed(u)' = Owed(u) \ {z} /\ z \in Owed(u)
      BY <1>1, <1>2, <1>3, <2>1, ViewFacts DEF Owed
    <3>2. Cardinality(Owed(u)') = Cardinality(Owed(u)) - 1
      BY <3>1, CountsFinite, FS_RemoveElement
    <3> QED
      BY <1>4, <2>1, <3>2 DEF IndInv, OwedInv
  <2>2. CASE u # w
    <3>1. z \notin Views[u]
      BY <2>2, ViewFacts
    <3>2. Owed(u)' = Owed(u)
      BY <1>3, <3>1, ViewFacts DEF Owed
    <3> QED
      BY <1>4, <2>2, <3>2 DEF IndInv, OwedInv, Types
  <2> QED
    BY <2>1, <2>2
<1>7. \A u \in VIndex : u < v
  BY <1>1, ViewFacts DEF IndInv, PhaseInv
<1>8. loads_pending[w] # 0 /\ loaddone[w]
  <2>1. z \in Owed(w)
    BY <1>1, <1>2 DEF Owed
  <2>2. Cardinality(Owed(w)) # 0
    BY <1>2, <2>1, CountsFinite, FS_EmptySet
  <2> QED
    BY <1>2, <1>7, <2>2 DEF IndInv, OwedInv, PhaseInv
<1>9. refs = Cardinality(Reporting)
  BY <1>1, CountsFinite DEF IndInv, RefsInv
<1>10. ProfilerInv' /\ loads_pending' \in [VIndex -> Int]
       /\ zone' \in [Zones -> {"new", "queued", "read", "done", "cancelled"}]
  BY <1>1, <1>2 DEF IndInv, ProfilerInv, Types
<1>11. CASE loads_pending'[w] # 0
  <2>1. UNCHANGED <<refs, running, loaddone>>
    BY <1>11 DEF doneloading
  <2>2. Reporting' = Reporting
    BY <2>1 DEF Reporting
  <2>3. Types' /\ RefsInv' /\ RunningInv'
    BY <1>1, <1>5, <1>10, <2>1, <2>2 DEF IndInv, Types, RefsInv, RunningInv
  <2>4. PhaseInv'
    BY <1>1, <1>3, <1>4, <1>7, <1>8, <1>11, <2>1, ViewFacts DEF IndInv, Types, PhaseInv
  <2> QED
    BY <1>6, <1>10, <2>3, <2>4 DEF IndInv, OwedInv
<1>12. CASE loads_pending'[w] = 0
  <2>1. /\ refs' = refs - 1 /\ running' = IF refs' = 0 THEN running + 1 ELSE running
        /\ loaddone' = [loaddone EXCEPT ![w] = FALSE]
    BY <1>8, <1>12 DEF doneloading, view_loaded
  <2>2. Reporting' = Reporting \ {w} /\ w \in Reporting
    BY <1>2, <1>8, <2>1 DEF IndInv, Types, Reporting
  <2>3. Cardinality(Reporting') = Cardinality(Reporting) - 1 /\ IsFiniteSet(Reporting')
    BY <2>2, CountsFinite, FS_RemoveElement
  <2>4. RefsInv'
    BY <1>1, <1>9, <2>1, <2>3, CountsFinite DEF RefsInv
  <2>5. Types'
    BY <1>1, <1>5, <1>10, <2>1 DEF IndInv, Types
  <2>6. PhaseInv'
    BY <1>1, <1>3, <1>4, <1>7, <1>8, <1>12, <2>1, ViewFacts DEF IndInv, Types, PhaseInv
  <2>7. refs' = 0 => \A y \in Zones : zone'[y] = "done"
    <3> SUFFICES ASSUME refs' = 0, NEW y \in Zones PROVE zone'[y] = "done"
      OBVIOUS
    <3>1. Reporting' = {}
      BY <1>9, <2>1, <2>3, FS_EmptySet, CountsFinite
    <3>2. ViewOf(y) \in VIndex /\ y \in Views[ViewOf(y)]
      BY ViewFacts
    <3>3. ~loaddone'[ViewOf(y)]
      BY <3>1, <3>2 DEF Reporting
    <3>4. loads_pending'[ViewOf(y)] = 0 /\ zone'[y] # "new"
      BY <1>1, <1>7, <2>6, <3>2, <3>3 DEF PhaseInv
    <3>5. \A u \in VIndex : IsFiniteSet(Owed(u)')
      <4>1. \A u \in VIndex : Owed(u)' \in SUBSET Zones
        BY ViewFacts DEF Owed
      <4> QED
        BY <4>1, ViewsAssumption, FS_Subset
    <3>6. \A u \in VIndex : loads_pending'[u] = 0 => Owed(u)' = {}
      BY <1>6, <3>5, FS_EmptySet
    <3>7. zone'[y] \notin {"queued", "read", "cancelled"}
      BY <3>2, <3>4, <3>6 DEF Owed
    <3> QED
      BY <1>10, <3>4, <3>7
  <2>8. RunningInv'
    BY <1>1, <1>5, <2>1, <2>7 DEF RunningInv
  <2> QED
    BY <1>6, <1>10, <2>4, <2>5, <2>6, <2>8 DEF IndInv, OwedInv
<1> QED
  BY <1>11, <1>12

(* Every step preserves the invariant. *)
LEMMA NextInv == IndInv /\ [Next]_vars => IndInv'
<1> SUFFICES ASSUME IndInv, [Next]_vars PROVE IndInv'
  OBVIOUS
<1>1. CASE Server
  BY <1>1, ServerSteps, ScheduleStep, ViewStep DEF Server
<1>2. CASE \E z \in Zones : Load(z)
  BY <1>2, LoadStep, DoneStep DEF Load
<1>3. CASE Profile
  BY <1>3, ProfilerSteps
<1>4. CASE UNCHANGED vars
  <2>1. (\A w \in VIndex : Owed(w)' = Owed(w)) /\ Reporting' = Reporting
    BY <1>4 DEF vars, Owed, Reporting
  <2> QED
    BY <1>4, <2>1 DEF vars, IndInv, Types, ProfilerInv, PhaseInv, OwedInv, RefsInv, RunningInv
<1> QED
  BY <1>1, <1>2, <1>3, <1>4 DEF Next

(* For any views and zones, the references on zl count the views that are   *)
(* still to report and load_zones itself (server.c:5255-5304, zt.c:467-490).*)
THEOREM ReferencesAreExact == Spec => []RefsCountViews
<1> QED
  BY InvImplies, InitInv, NextInv, PTL DEF Spec

(* For any views and zones, "all zones loaded" is reported only after every *)
(* load has ended (view_loaded, server.c:5220-5253), whatever the profiler  *)
(* thread does.                                                             *)
THEOREM ReportIsNotEarly == Spec => []RunningMeansLoaded
<1> QED
  BY InvImplies, InitInv, NextInv, PTL DEF Spec
=============================================================================
