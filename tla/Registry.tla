------------------------------ MODULE Registry ------------------------------
(***************************************************************************)
(* Index directories, the IndexCatalog that makes and removes them, and    *)
(* the IndexRegistry that keeps one open IndexHandle per name.  Requests   *)
(* and background tasks interleave at every await.                         *)
(*                                                                         *)
(* Locks are RAII guards, so who holds one follows from where a task       *)
(* stands in its code (HoldsWrite, HoldsRead, HoldsCatalog, HoldsMap,      *)
(* HoldsHandle): returning, failing, being dropped or dying all release.   *)
(***************************************************************************)
EXTENDS Naturals, FiniteSets, Sequences

CONSTANTS
    Names,      \* index names
    Tasks,      \* requests and background tasks that run at the same time
    Permits,    \* permits of the node's background semaphore
    NoHandle,   \* no handle
    NoName,     \* the task has no request
    MaxEpoch,   \* bound: times a directory of one name is made
    MaxOpens,   \* bound: handles opened since the start
    MaxFaults   \* bound: dropped requests, failed removals and restarts

ASSUME PermitsAssumption  == Permits \in Nat \ {0}
ASSUME NoHandleAssumption == NoHandle \notin Nat
ASSUME NoNameAssumption   == NoName \notin Names
ASSUME LimitsAssumption   == MaxEpoch \in Nat /\ MaxOpens \in Nat /\ MaxFaults \in Nat

VARIABLES
    dir,       \* what is under indexes/<name>
    epoch,     \* how often the directory was made: its incarnation
    detached,  \* removals that go on although their request is gone
    handles,   \* the registry's map from names to handles
    made,      \* the handles opened so far: the incarnation each one was opened on
    queue,     \* the tasks that wait for the registry's lifecycle_lock, oldest first
    pc, name,  \* each task's place in its code, and the index it is about
    kind,      \* what it does there
    mine,      \* the handle it has a reference to
    left,      \* the handles that index_metrics still has to visit
    known,     \* what the last answer to a create or delete request said
    halfway,   \* names that a delete has left half done: it was dropped, or failed, after
               \* it had begun, and no create or delete has set things right since
    revived,   \* incarnations whose directory got its metadata.json from a task with
               \* an old handle: nobody created or opened it
    faults

vars == <<dir, epoch, detached, handles, made, queue, pc, name, kind, mine, left, known,
          halfway, revived, faults>>
disk == <<dir, epoch, detached>>
ghosts == <<known, halfway, revived>>

\* "skeleton": no readable metadata.json; "created": metadata.json but no
\* wal/CURRENT, which the first open_index writes; "open": both.
DirStates == {"none", "skeleton", "created", "open"}

Kinds == {"create_index", "delete_index", "request", "background", "metrics"}

Incarnation(n) == [name |-> n, epoch |-> epoch[n]]

-----------------------------------------------------------------------------
\* Locks, by the places in the code where their guards are alive.

\* Mutant: the lifecycle lock is not taken.
HoldsNothing(t) == FALSE

\* lifecycle_lock.write() of the registry: create_index and delete_index.
WritePlaces   == {"make", "meta", "reopen", "publish", "remove", "removing", "removed"}
HoldsWrite(t) == pc[t] \in WritePlaces

\* lifecycle_lock.read() of the registry: the slow path of index_handle.
HoldsRead(t) == pc[t] \in {"recheck", "open", "insert"}

\* lifecycle_lock of the catalog, across the steps of create_index and delete_index.
HoldsCatalog(t) == pc[t] \in {"meta", "removing"}

\* Mutant: index_handle keeps the map locked after its second look.
HoldsMapThroughout(t) == pc[t] \in {"visit", "open", "insert"}

\* The map's mutex is held across an await by index_metrics only.
HoldsMap(t) == pc[t] = "visit"

HoldsHandle(t) == pc[t] = "busy"

HoldsPermit(t) == kind[t] = "background" /\ pc[t] \in {"queued", "busy"}

\* Tokio's RwLock is fair: nobody overtakes, so readers wait behind a waiting writer.
Turn(t)       == queue # <<>> /\ Head(queue) = t
CanWrite      == \A t \in Tasks : ~HoldsWrite(t) /\ ~HoldsRead(t)
CanRead       == \A t \in Tasks : ~HoldsWrite(t)
CatalogFree   == \A t \in Tasks : ~HoldsCatalog(t)
MapFree       == \A t \in Tasks : ~HoldsMap(t)
HandleFree(h) == \A t \in Tasks : ~(HoldsHandle(t) /\ mine[t] = h)
PermitFree    == Cardinality({t \in Tasks : HoldsPermit(t)}) < Permits

-----------------------------------------------------------------------------
Init ==
    /\ dir = [n \in Names |-> "none"] /\ epoch = [n \in Names |-> 0] /\ detached = {}
    /\ handles = [n \in Names |-> NoHandle] /\ made = <<>> /\ queue = <<>>
    /\ pc = [t \in Tasks |-> "idle"] /\ name = [t \in Tasks |-> NoName]
    /\ kind = [t \in Tasks |-> "request"]
    /\ mine = [t \in Tasks |-> NoHandle] /\ left = [t \in Tasks |-> {}]
    /\ known = [n \in Names |-> "none"] /\ halfway = {} /\ revived = {}
    /\ faults = 0

Goto(t, place) == pc' = [pc EXCEPT ![t] = place]

\* The queue when a task leaves it from wherever it stands.  It stands there once.
Without(q, t) ==
    IF \E i \in DOMAIN q : q[i] = t
    THEN LET i == CHOOSE j \in DOMAIN q : q[j] = t
         IN  SubSeq(q, 1, i - 1) \o SubSeq(q, i + 1, Len(q))
    ELSE q

\* The task's future is gone: its guards and references with it.
Gone(t) ==
    /\ pc' = [pc EXCEPT ![t] = "idle"]
    /\ name' = [name EXCEPT ![t] = NoName]
    /\ kind' = [kind EXCEPT ![t] = "request"]
    /\ mine' = [mine EXCEPT ![t] = NoHandle]
    /\ left' = [left EXCEPT ![t] = {}]
    /\ queue' = Without(queue, t)

Keep(t) == UNCHANGED <<queue, name, kind, mine, left>>

Begin(t, k, n, place) ==
    /\ pc[t] = "idle"
    /\ Goto(t, place)
    /\ name' = [name EXCEPT ![t] = n]
    /\ kind' = [kind EXCEPT ![t] = k]

\* A handler that works on an index, from here on in index_handle.
StartRequest(t, n) ==
    /\ Begin(t, "request", n, "lookup")
    /\ UNCHANGED <<disk, handles, made, queue, mine, left, ghosts, faults>>

\* A tick of a background loop spawns a task for every cached handle.
StartBackground(t, n) ==
    /\ handles[n] # NoHandle /\ MapFree
    /\ Begin(t, "background", n, "permit")
    /\ mine' = [mine EXCEPT ![t] = handles[n]]
    /\ UNCHANGED <<disk, handles, made, queue, left, ghosts, faults>>

StartLifecycle(t, n, k) ==
    /\ Begin(t, k, n, "wait")
    /\ queue' = Append(queue, t)
    /\ UNCHANGED <<disk, handles, made, mine, left, ghosts, faults>>

StartMetrics(t) ==
    /\ MapFree
    /\ Begin(t, "metrics", NoName, "visit")
    /\ left' = [left EXCEPT ![t] = {handles[m] : m \in Names} \ {NoHandle}]
    /\ UNCHANGED <<disk, handles, made, queue, mine, ghosts, faults>>

-----------------------------------------------------------------------------
\* IndexRegistry::index_handle

Take(t, h) ==
    /\ Goto(t, "queued")
    /\ mine' = [mine EXCEPT ![t] = h]
    /\ UNCHANGED <<queue, name, kind, left>>

\* Mutant: the fast path does not ask whether there is a handle.
FastPathOnly(t) ==
    /\ pc[t] = "lookup" /\ MapFree
    /\ Take(t, handles[name[t]])
    /\ UNCHANGED <<disk, handles, made, ghosts, faults>>

FastPath(t) ==
    /\ pc[t] = "lookup" /\ MapFree
    /\ IF handles[name[t]] # NoHandle
       THEN Take(t, handles[name[t]])
       ELSE /\ Goto(t, "slow")
            /\ queue' = Append(queue, t)
            /\ UNCHANGED <<name, kind, mine, left>>
    /\ UNCHANGED <<disk, handles, made, ghosts, faults>>

ReadLock(t) ==
    /\ pc[t] = "slow" /\ Turn(t) /\ CanRead
    /\ queue' = Tail(queue)
    /\ Goto(t, "recheck")
    /\ UNCHANGED <<name, kind, mine, left, disk, handles, made, ghosts, faults>>

Recheck(t) ==
    /\ pc[t] = "recheck" /\ MapFree
    /\ IF handles[name[t]] # NoHandle
       THEN Take(t, handles[name[t]])
       ELSE Goto(t, "open") /\ Keep(t)
    /\ UNCHANGED <<disk, handles, made, ghosts, faults>>

\* IndexCatalog::open_index, under the catalog's lock from its first line to its last.
Opened(t, place) ==
    /\ dir[name[t]] \in {"created", "open"} /\ CatalogFree
    /\ dir' = [dir EXCEPT ![name[t]] = "open"]
    /\ made' = Append(made, Incarnation(name[t]))
    /\ mine' = [mine EXCEPT ![t] = Len(made) + 1]
    /\ Goto(t, place)
    /\ UNCHANGED <<epoch, detached, handles, queue, name, kind, left, ghosts, faults>>

Open(t) == pc[t] = "open" /\ Opened(t, "insert")

\* IndexNotFound.  create_index meets it when a removal that outlived its request
\* has taken the new directory away.
OpenFails(t) ==
    /\ pc[t] \in {"open", "reopen"} /\ CatalogFree
    /\ dir[name[t]] \in {"none", "skeleton"}
    /\ Gone(t)
    /\ UNCHANGED <<disk, handles, made, ghosts, faults>>

\* Mutant: the handle goes into the map without a look at what is there.
InsertAnyway(t) ==
    /\ pc[t] = "insert" /\ MapFree
    /\ handles' = [handles EXCEPT ![name[t]] = mine[t]]
    /\ Take(t, mine[t])
    /\ UNCHANGED <<disk, made, ghosts, faults>>

Insert(t) ==
    /\ pc[t] = "insert" /\ MapFree
    /\ IF handles[name[t]] # NoHandle
       THEN Take(t, handles[name[t]]) /\ UNCHANGED handles
       ELSE Take(t, mine[t]) /\ handles' = [handles EXCEPT ![name[t]] = mine[t]]
    /\ UNCHANGED <<disk, made, ghosts, faults>>

-----------------------------------------------------------------------------
\* The work itself, with the handle's mutex held.

Permit(t) ==
    /\ pc[t] = "permit" /\ PermitFree
    /\ Goto(t, "queued") /\ Keep(t)
    /\ UNCHANGED <<disk, handles, made, ghosts, faults>>

Lock(t) ==
    /\ pc[t] = "queued" /\ HandleFree(mine[t])
    /\ Goto(t, "busy") /\ Keep(t)
    /\ UNCHANGED <<disk, handles, made, ghosts, faults>>

\* Searches, reads and refresh never touch the directory.  Where it is not there,
\* writes, flush and eviction fail over the first file they open.  Where it is
\* complete, what they do to its files changes none of the DirStates.
Work(t) ==
    /\ pc[t] = "busy"
    /\ Gone(t)
    /\ UNCHANGED <<disk, handles, made, ghosts, faults>>

\* merge() and create_snapshot create the directory they write to, and all above it.
MakesDirectory(t) ==
    /\ pc[t] = "busy"
    /\ dir[name[t]] = "none"
    /\ dir' = [dir EXCEPT ![name[t]] = "skeleton"]
    /\ Gone(t)
    /\ UNCHANGED <<epoch, detached, handles, made, ghosts, faults>>

\* index_document saves new mappings before it comes to the WAL: where there is a
\* directory without metadata.json it gets one.  Then the append fails over
\* wal/CURRENT.
PersistsMappings(t) ==
    /\ pc[t] = "busy" /\ kind[t] = "request"
    /\ dir[name[t]] = "skeleton"
    /\ dir' = [dir EXCEPT ![name[t]] = "created"]
    /\ revived' = revived \cup {Incarnation(name[t])}
    /\ Gone(t)
    /\ UNCHANGED <<epoch, detached, handles, made, known, halfway, faults>>

\* IndexRegistry::index_metrics visits the handles one by one with the map locked.
Visit(t) ==
    /\ pc[t] = "visit"
    /\ \E h \in left[t] :
          /\ HandleFree(h)
          /\ left' = [left EXCEPT ![t] = @ \ {h}]
    /\ UNCHANGED <<disk, handles, made, queue, pc, name, kind, mine, ghosts, faults>>

Visited(t) ==
    /\ pc[t] = "visit" /\ left[t] = {}
    /\ Gone(t)
    /\ UNCHANGED <<disk, handles, made, ghosts, faults>>

-----------------------------------------------------------------------------
\* IndexRegistry::create_index and delete_index

WriteLock(t) ==
    /\ pc[t] = "wait" /\ Turn(t) /\ CanWrite
    /\ queue' = Tail(queue)
    /\ Goto(t, IF kind[t] = "create_index" THEN "make" ELSE "remove")
    /\ UNCHANGED <<name, kind, mine, left, disk, handles, made, ghosts, faults>>

\* IndexCatalog::create_index: the directories and an empty manifest ...
MakeDirs(t) ==
    /\ pc[t] = "make" /\ CatalogFree
    /\ dir[name[t]] = "none"
    /\ dir' = [dir EXCEPT ![name[t]] = "skeleton"]
    /\ epoch' = [epoch EXCEPT ![name[t]] = @ + 1]
    /\ known' = [known EXCEPT ![name[t]] = "none"]
    /\ Goto(t, "meta") /\ Keep(t)
    /\ UNCHANGED <<detached, handles, made, halfway, revived, faults>>

\* IndexAlreadyExists: any directory will do.
AlreadyExists(t) ==
    /\ pc[t] = "make" /\ CatalogFree
    /\ dir[name[t]] # "none"
    /\ Gone(t)
    /\ UNCHANGED <<disk, handles, made, ghosts, faults>>

\* ... and then metadata.json.
WriteMetadata(t) ==
    /\ pc[t] = "meta" /\ dir[name[t]] # "none"
    /\ dir' = [dir EXCEPT ![name[t]] = "created"]
    /\ Goto(t, "reopen") /\ Keep(t)
    /\ UNCHANGED <<epoch, detached, handles, made, ghosts, faults>>

\* There is no directory to write it to any more.
MetadataFails(t) ==
    /\ pc[t] = "meta" /\ dir[name[t]] = "none"
    /\ Gone(t)
    /\ UNCHANGED <<disk, handles, made, ghosts, faults>>

Reopen(t) == pc[t] = "reopen" /\ Opened(t, "publish")

Publish(t) ==
    /\ pc[t] = "publish" /\ MapFree
    /\ handles' = [handles EXCEPT ![name[t]] = mine[t]]
    /\ known' = [known EXCEPT ![name[t]] = "exists"]
    /\ halfway' = IF dir[name[t]] = "open" THEN halfway \ {name[t]} ELSE halfway
    /\ Gone(t)
    /\ UNCHANGED <<disk, made, revived, faults>>

\* IndexCatalog::delete_index
StartRemoval(t) ==
    /\ pc[t] = "remove" /\ CatalogFree
    /\ dir[name[t]] # "none"
    /\ known' = [known EXCEPT ![name[t]] = "none"]
    /\ Goto(t, "removing") /\ Keep(t)
    /\ UNCHANGED <<disk, handles, made, halfway, revived, faults>>

\* IndexNotFound: the handle in the map, if there is one, stays there.
NotFound(t) ==
    /\ pc[t] = "remove" /\ CatalogFree
    /\ dir[name[t]] = "none"
    /\ Gone(t)
    /\ UNCHANGED <<disk, handles, made, ghosts, faults>>

FinishRemoval(t) ==
    /\ pc[t] = "removing"
    /\ dir' = [dir EXCEPT ![name[t]] = "none"]
    /\ Goto(t, "removed") /\ Keep(t)
    /\ UNCHANGED <<epoch, detached, handles, made, ghosts, faults>>

\* What a removal that does not reach its end leaves: the metadata may be there or not.
Remains(n) == {dir[n], "skeleton"} \cup (IF dir[n] = "open" THEN {"created"} ELSE {})

\* remove_dir_all fails over a file that a task with the handle has just made.
RemovalFails(t) ==
    /\ pc[t] = "removing" /\ faults < MaxFaults
    /\ \E u \in Tasks : HoldsHandle(u) /\ name[u] = name[t]
    /\ \E rest \in Remains(name[t]) : dir' = [dir EXCEPT ![name[t]] = rest]
    /\ halfway' = halfway \cup {name[t]}
    /\ faults' = faults + 1
    /\ Gone(t)
    /\ UNCHANGED <<epoch, detached, handles, made, known, revived>>

\* Mutant: delete_index leaves the handle in the map.
ForgetNothing(t) ==
    /\ pc[t] = "removed" /\ MapFree
    /\ known' = [known EXCEPT ![name[t]] = "deleted"]
    /\ halfway' = halfway \ {name[t]}
    /\ Gone(t)
    /\ UNCHANGED <<disk, handles, made, revived, faults>>

Forget(t) ==
    /\ pc[t] = "removed" /\ MapFree
    /\ handles' = [handles EXCEPT ![name[t]] = NoHandle]
    /\ known' = [known EXCEPT ![name[t]] = "deleted"]
    /\ halfway' = halfway \ {name[t]}
    /\ Gone(t)
    /\ UNCHANGED <<disk, made, revived, faults>>

-----------------------------------------------------------------------------
\* The client goes away and its handler is dropped at an await.  What runs on a
\* blocking thread goes on: a removal, and the write of metadata.json.
Drop(t) ==
    /\ pc[t] # "idle" /\ kind[t] # "background" /\ faults < MaxFaults
    /\ faults' = faults + 1
    /\ \/ dir' = dir
       \/ pc[t] = "meta" /\ dir[name[t]] # "none" /\ dir' = [dir EXCEPT ![name[t]] = "created"]
    /\ detached' = IF pc[t] = "removing" THEN detached \cup {name[t]} ELSE detached
    /\ halfway' = IF pc[t] \in {"removing", "removed"} THEN halfway \cup {name[t]} ELSE halfway
    /\ Gone(t)
    /\ UNCHANGED <<epoch, handles, made, known, revived>>

\* It ends at some time, perhaps when the directory has long been removed by another
\* request, and even made again by a third.
DetachedRemoval(n) ==
    /\ n \in detached
    /\ dir' = [dir EXCEPT ![n] = "none"]
    /\ detached' = detached \ {n}
    /\ halfway' = IF dir[n] = "none" THEN halfway ELSE halfway \cup {n}
    /\ UNCHANGED <<epoch, handles, made, queue, pc, name, kind, mine, left, known, revived, faults>>

\* The process ends and starts again.  A removal stops half way.
Restart ==
    /\ faults < MaxFaults
    /\ faults' = faults + 1
    /\ LET cut == detached \cup {name[t] : t \in {u \in Tasks : pc[u] = "removing"}}
       IN \E rest \in [cut -> DirStates] :
             /\ \A n \in cut : rest[n] \in Remains(n)
             /\ dir' = [n \in Names |-> IF n \in cut THEN rest[n] ELSE dir[n]]
             /\ known' = [n \in Names |-> IF n \in cut \cup halfway THEN "none" ELSE known[n]]
    /\ detached' = {} /\ halfway' = {}
    /\ handles' = [n \in Names |-> NoHandle] /\ queue' = <<>>
    /\ pc' = [t \in Tasks |-> "idle"] /\ name' = [t \in Tasks |-> NoName]
    /\ kind' = [t \in Tasks |-> "request"]
    /\ mine' = [t \in Tasks |-> NoHandle] /\ left' = [t \in Tasks |-> {}]
    /\ UNCHANGED <<epoch, made, revived>>

\* The bounds stop new work, never work that has begun.
Busy(kinds)  == {t \in Tasks : kind[t] \in kinds /\ pc[t] # "idle"}
MayOpen      == Len(made) + Cardinality(Busy({"request", "create_index"})) < MaxOpens
MayCreate(n) == MayOpen /\ epoch[n] + Cardinality(Busy({"create_index"})) < MaxEpoch

Start(t) ==
    \/ \E n \in Names :
          \/ MayOpen /\ StartRequest(t, n)
          \/ StartBackground(t, n)
          \/ MayCreate(n) /\ StartLifecycle(t, n, "create_index")
          \/ StartLifecycle(t, n, "delete_index")
    \/ StartMetrics(t)

Lookup(t) ==
    FastPath(t) \/ ReadLock(t) \/ Recheck(t) \/ Open(t) \/ OpenFails(t) \/ Insert(t)

Use(t) ==
    \/ Permit(t) \/ Lock(t) \/ Work(t) \/ MakesDirectory(t) \/ PersistsMappings(t)
    \/ Visit(t) \/ Visited(t)

Create(t) ==
    \/ WriteLock(t) \/ MakeDirs(t) \/ AlreadyExists(t) \/ WriteMetadata(t)
    \/ MetadataFails(t) \/ Reopen(t) \/ Publish(t)

Delete(t) ==
    StartRemoval(t) \/ NotFound(t) \/ FinishRemoval(t) \/ RemovalFails(t) \/ Forget(t)

Step(t) == Lookup(t) \/ Use(t) \/ Create(t) \/ Delete(t)

Next ==
    \/ \E t \in Tasks : Start(t) \/ Step(t) \/ Drop(t)
    \/ \E n \in Names : DetachedRemoval(n)
    \/ Restart

Spec == Init /\ [][Next]_vars

\* Tokio's mutexes and locks serve their waiters in the order of arrival.
FairSpec == Spec /\ \A t \in Tasks : SF_vars(Step(t))

-----------------------------------------------------------------------------
(***************************************************************************)
(* What the registry must get right.                                       *)
(***************************************************************************)

Handle == 1..Len(made)

Places == {"idle", "lookup", "slow", "recheck", "open", "insert", "permit", "queued", "busy",
           "visit", "wait"} \cup WritePlaces

RegistryTypes ==
    /\ dir \in [Names -> DirStates] /\ epoch \in [Names -> Nat]
    /\ detached \subseteq Names /\ halfway \subseteq Names
    /\ revived \subseteq [name : Names, epoch : Nat]
    /\ made \in Seq([name : Names, epoch : Nat])
    /\ handles \in [Names -> Handle \cup {NoHandle}]
    /\ pc \in [Tasks -> Places] /\ kind \in [Tasks -> Kinds]
    /\ name \in [Tasks -> Names \cup {NoName}]
    /\ mine \in [Tasks -> Handle \cup {NoHandle}]
    /\ left \in [Tasks -> SUBSET Handle]
    /\ known \in [Names -> {"none", "exists", "deleted"}]
    /\ faults \in Nat
    /\ \A t \in Tasks :
          /\ pc[t] \in {"insert", "permit", "queued", "busy", "publish"} => mine[t] # NoHandle
          /\ pc[t] \notin {"idle", "visit"} => name[t] \in Names

\* The variables have their types, and a task that uses a handle has one.
TypeOK == RegistryTypes /\ queue \in Seq(Tasks)

\* A delete of n was cut short: its client left, or the files were in use.
Disturbed(n) == n \in halfway

\* The handle that the registry hands out for a name is one of the directory that
\* is there now, never of one that was deleted before: a lookup that races with
\* delete_index and create_index cannot put an old handle back into the map.
CacheIsCurrent ==
    \A n \in Names : handles[n] # NoHandle =>
        \/ made[handles[n]] = Incarnation(n) /\ dir[n] = "open"
        \/ Disturbed(n)
        \/ \E t \in Tasks : pc[t] = "removed" /\ name[t] = n

InUse == {mine[t] : t \in {u \in Tasks : pc[u] \in {"permit", "queued", "busy"}}}
         \cup ({handles[n] : n \in Names} \ {NoHandle})

\* All work on one incarnation of a directory goes through one handle, whose mutex
\* is all that keeps two writers of its WAL and manifest apart, however lookups,
\* creates, deletes and dropped requests interleave.  The exception is exact: tasks
\* that still had the handle of a deleted index made its directory again and saved
\* mappings to it, so that it was opened a second time.  What such a task
\* writes into the files of a later incarnation is not excluded.
OneHandle ==
    \A g, h \in InUse : made[g] = made[h] => g = h \/ made[g] \in revived

\* An index whose creation was acknowledged, and that nobody has begun to delete,
\* is complete on disk, also after a restart: a half-made or half-removed
\* directory is never one that a client was told to exist.
AckedIsOpen == \A n \in Names : known[n] = "exists" => dir[n] = "open" \/ Disturbed(n)

\* Every request and every background task comes to an end: no order in which the
\* registry's lock, the catalog's, the map's, the semaphore and the handles are
\* taken makes tasks wait for each other for ever.
RequestsFinish == \A t \in Tasks : pc[t] # "idle" ~> pc[t] = "idle"

\* A deleted index stays out of reach until the next create_index: no handle of it
\* is handed out and none can be opened, whatever the tasks that still have its old
\* handle do, short of making its directory again by a merge or a snapshot and then
\* saving new mappings to it: that brings it back, which the documentation denies (its
\* storage "has been removed or scheduled for removal").
DeletedIsGone ==
    \A n \in Names : known[n] = "deleted" =>
        \/ dir[n] \in {"none", "skeleton"} /\ handles[n] = NoHandle
        \/ Disturbed(n)
        \/ Incarnation(n) \in revived
=============================================================================
