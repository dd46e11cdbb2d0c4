--------------------------- MODULE RegistryProofs ---------------------------
(***************************************************************************)
(* Theorems about module Registry, for every set of names and tasks, any   *)
(* number of permits, and without any bound on incarnations, handles or    *)
(* faults.                                                                 *)
(***************************************************************************)
EXTENDS Registry, SequenceTheorems, TLAPS

-----------------------------------------------------------------------------
(***************************************************************************)
(* The inductive invariant.                                                *)
(***************************************************************************)

\* Only one task holds the registry's lock for writing, and then none for reading.
Exclusion ==
    \A t, u \in Tasks : HoldsWrite(t) /\ t # u => ~HoldsWrite(u) /\ ~HoldsRead(u)

\* A handle that is about to go into the map is of the present incarnation.
Fresh ==
    \A t \in Tasks : pc[t] \in {"insert", "publish"} =>
        /\ made[mine[t]] = Incarnation(name[t])
        /\ dir[name[t]] = "open" \/ Disturbed(name[t])

\* While an index is created nobody uses a handle of its new incarnation.
Creating ==
    \A t \in Tasks : pc[t] \in {"meta", "reopen", "publish"} =>
        /\ known[name[t]] = "none"
        /\ \A h \in InUse : made[h] # Incarnation(name[t])

\* While an index is deleted it is not known to exist, and in the end it is not complete,
\* unless a task with its old handle has brought it back already.
Deleting ==
    \A t \in Tasks :
        /\ pc[t] \in {"removing", "removed"} => known[name[t]] = "none"
        /\ pc[t] = "removed" => \/ dir[name[t]] \in {"none", "skeleton"}
                               \/ Incarnation(name[t]) \in revived

\* Handles in use are of this incarnation or an earlier one.
NotAhead == \A h \in InUse : made[h].epoch <= epoch[made[h].name]

Unopenable(n) ==
    /\ dir[n] \in {"none", "skeleton"}
    /\ \A t \in Tasks : pc[t] = "insert" => name[t] # n

\* A handle in use of the present incarnation is the one in the map, unless the
\* index has been deleted and cannot be opened any more, or was brought back.
UsedIsCached ==
    \A h \in InUse, n \in Names : made[h] = Incarnation(n) =>
        handles[n] = h \/ Unopenable(n) \/ Incarnation(n) \in revived

RegistryInv ==
    /\ RegistryTypes /\ Exclusion /\ Fresh /\ Creating /\ Deleting /\ NotAhead /\ UsedIsCached
    /\ OneHandle /\ CacheIsCurrent /\ AckedIsOpen /\ DeletedIsGone

-----------------------------------------------------------------------------
\* Type correctness.

\* What open_index does to the table of handles.
LEMMA OpenedHandle ==
    ASSUME RegistryTypes, NEW t \in Tasks, NEW place \in Places, name[t] \in Names,
           Opened(t, place)
    PROVE  /\ made' \in Seq([name : Names, epoch : Nat])
           /\ Len(made') = Len(made) + 1
           /\ \A h \in Handle : h \in Handle' /\ made'[h] = made[h]
           /\ mine' = [mine EXCEPT ![t] = Len(made) + 1]
           /\ Len(made) + 1 \in Handle' /\ Len(made) + 1 \notin Handle
           /\ made'[Len(made) + 1] = Incarnation(name[t])
<1>1. Incarnation(name[t]) \in [name : Names, epoch : Nat]
  BY DEF RegistryTypes, Incarnation
<1>2. /\ made' = Append(made, Incarnation(name[t])) /\ made \in Seq([name : Names, epoch : Nat])
      /\ mine' = [mine EXCEPT ![t] = Len(made) + 1]
  BY DEF Opened, RegistryTypes
<1> HIDE DEF Incarnation
<1> QED BY <1>1, <1>2 DEF Handle

\* The first state has its type.
LEMMA TypesInit == Init => RegistryTypes
<1> SUFFICES ASSUME Init PROVE RegistryTypes
  OBVIOUS
<1>1. made \in Seq([name : Names, epoch : Nat]) /\ Handle = 1..0
  BY DEF Init, Handle
<1> QED BY <1>1 DEF Init, RegistryTypes, DirStates, Places, WritePlaces, Kinds

\* The part of the types that is not about tasks.
WorldTypes ==
    /\ dir \in [Names -> DirStates] /\ epoch \in [Names -> Nat]
    /\ detached \subseteq Names /\ halfway \subseteq Names
    /\ revived \subseteq [name : Names, epoch : Nat]
    /\ made \in Seq([name : Names, epoch : Nat])
    /\ handles \in [Names -> Handle \cup {NoHandle}]
    /\ known \in [Names -> {"none", "exists", "deleted"}]
    /\ faults \in Nat

\* A task moves to another place.
Moves(t, p, n, k, h, l) ==
    /\ pc' = [pc EXCEPT ![t] = p] /\ name' = [name EXCEPT ![t] = n]
    /\ kind' = [kind EXCEPT ![t] = k] /\ mine' = [mine EXCEPT ![t] = h]
    /\ left' = [left EXCEPT ![t] = l]

\* The types are kept by a move of one task to a place that it may be at.
LEMMA TypesMove ==
    ASSUME RegistryTypes, WorldTypes', Handle \subseteq Handle', NEW t \in Tasks,
           NEW p \in Places, NEW n \in Names \cup {NoName}, NEW k \in Kinds,
           NEW h, h \in Handle' \cup {NoHandle}, NEW l, l \in SUBSET Handle',
           Moves(t, p, n, k, h, l),
           p \in {"insert", "permit", "queued", "busy", "publish"} => h # NoHandle,
           p \notin {"idle", "visit"} => n \in Names
    PROVE  RegistryTypes'
<1>1. /\ pc' \in [Tasks -> Places] /\ kind' \in [Tasks -> Kinds]
      /\ name' \in [Tasks -> Names \cup {NoName}]
  BY DEF RegistryTypes, Moves
<1>2. mine' \in [Tasks -> Handle' \cup {NoHandle}] /\ left' \in [Tasks -> SUBSET Handle']
  BY DEF RegistryTypes, Moves
<1>3. ASSUME NEW u \in Tasks
      PROVE  /\ pc'[u] \in {"insert", "permit", "queued", "busy", "publish"} => mine'[u] # NoHandle
             /\ pc'[u] \notin {"idle", "visit"} => name'[u] \in Names
  BY DEF RegistryTypes, Moves
<1> QED BY <1>1, <1>2, <1>3 DEF RegistryTypes, WorldTypes

\* What goes on when a task stops where it is, and when it goes on with what it has.
LEMMA GoneMoves ==
    ASSUME NEW t \in Tasks, Gone(t)
    PROVE  Moves(t, "idle", NoName, "request", NoHandle, {})
BY DEF Gone, Moves

\* A task that goes on with what it has ...
LEMMA KeepMoves ==
    ASSUME RegistryTypes, NEW t \in Tasks, NEW p, Goto(t, p),
           UNCHANGED <<name, kind, mine, left>>
    PROVE  Moves(t, p, name[t], kind[t], mine[t], left[t])
BY DEF Goto, Moves, RegistryTypes

\* ... or with another handle, moves.
LEMMA TakeMoves ==
    ASSUME RegistryTypes, NEW t \in Tasks, NEW h, Take(t, h)
    PROVE  Moves(t, "queued", name[t], kind[t], h, left[t])
BY DEF Take, Goto, Moves, RegistryTypes

\* Steps that leave the world as it is.
LEMMA WorldSame ==
    ASSUME RegistryTypes, UNCHANGED <<dir, epoch, detached, handles, made, known, halfway, revived, faults>>
    PROVE  WorldTypes' /\ Handle' = Handle
BY DEF RegistryTypes, WorldTypes, Handle

\* Opening an index.
LEMMA TypesOpened ==
    ASSUME RegistryTypes, NEW t \in Tasks, NEW place \in Places, name[t] \in Names,
           Opened(t, place)
    PROVE  RegistryTypes'
<1>1. Moves(t, place, name[t], kind[t], Len(made) + 1, left[t])
  BY DEF Opened, Goto, Moves, RegistryTypes
<1>2. Handle \subseteq Handle' /\ Len(made) + 1 \in Handle'
  BY OpenedHandle
<1>3. WorldTypes'
  BY <1>2, OpenedHandle DEF Opened, RegistryTypes, WorldTypes, ghosts, DirStates
<1>4. Len(made) + 1 # NoHandle
  BY NoHandleAssumption DEF RegistryTypes
<1>5. kind[t] \in Kinds /\ left[t] \in SUBSET Handle'
  BY <1>2 DEF RegistryTypes
<1> QED BY <1>1, <1>2, <1>3, <1>4, <1>5, TypesMove

\* Starting a task.
LEMMA TypesStart ==
    ASSUME RegistryTypes, NEW t \in Tasks, Start(t)
    PROVE  RegistryTypes'
<1> USE DEF disk, ghosts
<1>1. ASSUME NEW n \in Names, StartRequest(t, n) PROVE RegistryTypes'
  <2>1. Moves(t, "lookup", n, "request", mine[t], left[t])
    BY <1>1 DEF StartRequest, Begin, Goto, Moves, RegistryTypes
  <2>2. WorldTypes' /\ Handle' = Handle
    BY <1>1, WorldSame DEF StartRequest
  <2> QED BY <2>1, <2>2, TypesMove DEF RegistryTypes, Places, Kinds
<1>2. ASSUME NEW n \in Names, StartBackground(t, n) PROVE RegistryTypes'
  <2>1. Moves(t, "permit", n, "background", handles[n], left[t]) /\ handles[n] # NoHandle
    BY <1>2 DEF StartBackground, Begin, Goto, Moves, RegistryTypes
  <2>2. WorldTypes' /\ Handle' = Handle
    BY <1>2, WorldSame DEF StartBackground
  <2>3. handles[n] \in Handle' /\ left[t] \in SUBSET Handle'
    BY <2>1, <2>2 DEF RegistryTypes
  <2>4. "permit" \in Places /\ "background" \in Kinds
    BY DEF Places, Kinds
  <2> DEFINE h == handles[n]
  <2>5. h \in Handle' \cup {NoHandle} /\ h # NoHandle
        /\ Moves(t, "permit", n, "background", h, left[t])
    BY <2>1, <2>3
  <2> HIDE DEF h
  <2> QED BY <2>2, <2>3, <2>4, <2>5, TypesMove
<1>3. ASSUME NEW n \in Names, NEW k \in {"create_index", "delete_index"}, StartLifecycle(t, n, k)
      PROVE  RegistryTypes'
  <2>1. Moves(t, "wait", n, k, mine[t], left[t])
    BY <1>3 DEF StartLifecycle, Begin, Goto, Moves, RegistryTypes
  <2>2. WorldTypes' /\ Handle' = Handle
    BY <1>3, WorldSame DEF StartLifecycle
  <2>3. mine[t] \in Handle' \cup {NoHandle} /\ left[t] \in SUBSET Handle'
    BY <2>2 DEF RegistryTypes
  <2>4. "wait" \in Places /\ k \in Kinds
    BY DEF Places, Kinds
  <2> QED BY <2>1, <2>2, <2>3, <2>4, TypesMove
<1>4. CASE StartMetrics(t)
  <2> DEFINE l == {handles[m] : m \in Names} \ {NoHandle}
  <2>1. Moves(t, "visit", NoName, "metrics", mine[t], l)
    BY <1>4 DEF StartMetrics, Begin, Goto, Moves, RegistryTypes
  <2>2. WorldTypes' /\ Handle' = Handle
    BY <1>4, WorldSame DEF StartMetrics
  <2>3. l \in SUBSET Handle' /\ mine[t] \in Handle' \cup {NoHandle}
    BY <2>2 DEF RegistryTypes
  <2>4. "visit" \in Places /\ "metrics" \in Kinds
    BY DEF Places, Kinds
  <2> HIDE DEF l
  <2> QED BY <2>1, <2>2, <2>3, <2>4, TypesMove
<1> QED BY <1>1, <1>2, <1>3, <1>4 DEF Start

\* Looking up a handle and working with it.
LEMMA TypesLookup ==
    ASSUME RegistryTypes, NEW t \in Tasks, Lookup(t)
    PROVE  RegistryTypes'
<1> USE DEF disk, ghosts
<1>a. /\ kind[t] \in Kinds /\ name[t] \in Names \cup {NoName}
      /\ mine[t] \in Handle \cup {NoHandle} /\ left[t] \in SUBSET Handle
  BY DEF RegistryTypes
<1>1. CASE FastPath(t)
  <2>1. name[t] \in Names /\ WorldTypes' /\ Handle' = Handle
    BY <1>1, WorldSame DEF FastPath, RegistryTypes
  <2>2. CASE handles[name[t]] # NoHandle
    <3>1. Moves(t, "queued", name[t], kind[t], handles[name[t]], left[t])
      BY <1>1, <2>2, TakeMoves DEF FastPath
    <3> QED BY <1>a, <2>1, <2>2, <3>1, TypesMove DEF RegistryTypes, Places
  <2>3. CASE handles[name[t]] = NoHandle
    <3>1. Moves(t, "slow", name[t], kind[t], mine[t], left[t])
      BY <1>1, <2>3, KeepMoves DEF FastPath
    <3> QED BY <1>a, <2>1, <3>1, TypesMove DEF Places
  <2> QED BY <2>2, <2>3
<1>2. CASE ReadLock(t)
  <2>1. name[t] \in Names /\ WorldTypes' /\ Handle' = Handle
    BY <1>2, WorldSame DEF ReadLock, RegistryTypes
  <2>2. Moves(t, "recheck", name[t], kind[t], mine[t], left[t])
    BY <1>2, KeepMoves DEF ReadLock
  <2> QED BY <1>a, <2>1, <2>2, TypesMove DEF Places
<1>3. CASE Recheck(t)
  <2>1. name[t] \in Names /\ WorldTypes' /\ Handle' = Handle
    BY <1>3, WorldSame DEF Recheck, RegistryTypes
  <2>2. CASE handles[name[t]] # NoHandle
    <3>1. Moves(t, "queued", name[t], kind[t], handles[name[t]], left[t])
      BY <1>3, <2>2, TakeMoves DEF Recheck
    <3> QED BY <1>a, <2>1, <2>2, <3>1, TypesMove DEF RegistryTypes, Places
  <2>3. CASE handles[name[t]] = NoHandle
    <3>1. Moves(t, "open", name[t], kind[t], mine[t], left[t])
      BY <1>3, <2>3, KeepMoves DEF Recheck, Keep
    <3> QED BY <1>a, <2>1, <3>1, TypesMove DEF Places
  <2> QED BY <2>2, <2>3
<1>4. CASE Open(t)
  <2>1. name[t] \in Names /\ Opened(t, "insert")
    BY <1>4 DEF Open, RegistryTypes
  <2> QED BY <2>1, TypesOpened DEF Places
<1>5. CASE OpenFails(t)
  <2>1. WorldTypes' /\ Handle' = Handle
    BY <1>5, WorldSame DEF OpenFails
  <2>2. Moves(t, "idle", NoName, "request", NoHandle, {})
    BY <1>5, GoneMoves DEF OpenFails
  <2> QED BY <2>1, <2>2, TypesMove DEF Places, Kinds
<1>6. CASE Insert(t)
  <2>1. name[t] \in Names /\ mine[t] \in Handle /\ mine[t] # NoHandle
    BY <1>6 DEF Insert, RegistryTypes
  <2>2. CASE handles[name[t]] # NoHandle
    <3>1. Moves(t, "queued", name[t], kind[t], handles[name[t]], left[t])
      BY <1>6, <2>2, TakeMoves DEF Insert
    <3>2. WorldTypes' /\ Handle' = Handle
      BY <1>6, <2>2, WorldSame DEF Insert
    <3> QED BY <1>a, <2>1, <2>2, <3>1, <3>2, TypesMove DEF RegistryTypes, Places
  <2>3. CASE handles[name[t]] = NoHandle
    <3>1. Moves(t, "queued", name[t], kind[t], mine[t], left[t])
      BY <1>6, <2>3, TakeMoves DEF Insert
    <3>2. WorldTypes' /\ Handle' = Handle
      BY <1>6, <2>1, <2>3 DEF Insert, RegistryTypes, WorldTypes, Handle
    <3> QED BY <1>a, <2>1, <3>1, <3>2, TypesMove DEF Places
  <2> QED BY <2>2, <2>3
<1> QED BY <1>1, <1>2, <1>3, <1>4, <1>5, <1>6 DEF Lookup

\* A task works on its handle.
LEMMA TypesUse ==
    ASSUME RegistryTypes, NEW t \in Tasks, Use(t)
    PROVE  RegistryTypes'
<1> USE DEF disk, ghosts
<1>a. /\ kind[t] \in Kinds /\ name[t] \in Names \cup {NoName}
      /\ mine[t] \in Handle \cup {NoHandle} /\ left[t] \in SUBSET Handle
      /\ pc[t] \in {"permit", "queued", "busy"} => name[t] \in Names /\ mine[t] # NoHandle
  BY DEF RegistryTypes
<1>1. CASE Permit(t)
  <2>1. WorldTypes' /\ Handle' = Handle
    BY <1>1, WorldSame DEF Permit
  <2>2. Moves(t, "queued", name[t], kind[t], mine[t], left[t])
    BY <1>1, KeepMoves DEF Permit, Keep
  <2> QED BY <1>a, <1>1, <2>1, <2>2, TypesMove DEF Places, Permit
<1>2. CASE Lock(t)
  <2>1. WorldTypes' /\ Handle' = Handle
    BY <1>2, WorldSame DEF Lock
  <2>2. Moves(t, "busy", name[t], kind[t], mine[t], left[t])
    BY <1>2, KeepMoves DEF Lock, Keep
  <2> QED BY <1>a, <1>2, <2>1, <2>2, TypesMove DEF Places, Lock
<1>3. CASE Work(t) \/ Visited(t)
  <2>1. WorldTypes' /\ Handle' = Handle
    BY <1>3, WorldSame DEF Work, Visited
  <2>2. Moves(t, "idle", NoName, "request", NoHandle, {})
    BY <1>3, GoneMoves DEF Work, Visited
  <2> QED BY <2>1, <2>2, TypesMove DEF Places, Kinds
<1>4. CASE MakesDirectory(t)
  <2>1. WorldTypes' /\ Handle' = Handle
    BY <1>4 DEF MakesDirectory, RegistryTypes, WorldTypes, Handle, DirStates
  <2>2. Moves(t, "idle", NoName, "request", NoHandle, {})
    BY <1>4, GoneMoves DEF MakesDirectory
  <2> QED BY <2>1, <2>2, TypesMove DEF Places, Kinds
<1>6. CASE PersistsMappings(t)
  <2>1. Incarnation(name[t]) \in [name : Names, epoch : Nat]
    BY <1>a, <1>6 DEF PersistsMappings, Incarnation, RegistryTypes
  <2>2. revived' \subseteq [name : Names, epoch : Nat] /\ dir' \in [Names -> DirStates]
    BY <1>6, <2>1 DEF PersistsMappings, RegistryTypes, DirStates
  <2>3. WorldTypes' /\ Handle' = Handle
    BY <1>6, <2>2 DEF PersistsMappings, RegistryTypes, WorldTypes, Handle
  <2>4. Moves(t, "idle", NoName, "request", NoHandle, {})
    BY <1>6, GoneMoves DEF PersistsMappings
  <2> QED BY <2>3, <2>4, TypesMove DEF Places, Kinds
<1>5. CASE Visit(t)
  <2>1. WorldTypes' /\ Handle' = Handle
    BY <1>5, WorldSame DEF Visit
  <2>2. PICK h \in left[t] : left' = [left EXCEPT ![t] = left[t] \ {h}]
    BY <1>5 DEF Visit
  <2>3. Moves(t, "visit", name[t], kind[t], mine[t], left[t] \ {h})
    BY <1>5, <2>2 DEF Visit, Moves, RegistryTypes
  <2> DEFINE l == left[t] \ {h}
  <2>4. l \in SUBSET Handle' /\ Moves(t, "visit", name[t], kind[t], mine[t], l)
    BY <1>a, <2>1, <2>3
  <2>5. "visit" \in Places /\ mine[t] \in Handle' \cup {NoHandle}
    BY <1>a, <2>1 DEF Places
  <2> HIDE DEF l
  <2> QED BY <1>a, <2>1, <2>4, <2>5, TypesMove
<1> QED BY <1>1, <1>2, <1>3, <1>4, <1>5, <1>6 DEF Use

\* A step that ends a task and changes the world within its types.
LEMMA TypesGone ==
    ASSUME RegistryTypes, NEW t \in Tasks, Gone(t), WorldTypes', made' = made
    PROVE  RegistryTypes'
<1>1. Handle' = Handle
  BY DEF Handle
<1>2. Moves(t, "idle", NoName, "request", NoHandle, {})
  BY GoneMoves
<1>3. "idle" \in Places /\ "request" \in Kinds
  BY DEF Places, Kinds
<1> QED BY <1>1, <1>2, <1>3, TypesMove

\* A step that takes a task on with what it has, within the types of the world.
LEMMA TypesKeep ==
    ASSUME RegistryTypes, NEW t \in Tasks, NEW p \in Places \ {"idle", "visit"}, Goto(t, p),
           UNCHANGED <<name, kind, mine, left>>, WorldTypes', made' = made,
           name[t] \in Names,
           p \in {"insert", "permit", "queued", "busy", "publish"} => mine[t] # NoHandle
    PROVE  RegistryTypes'
<1>1. Handle' = Handle
  BY DEF Handle
<1>2. Moves(t, p, name[t], kind[t], mine[t], left[t])
  BY KeepMoves
<1>3. kind[t] \in Kinds /\ mine[t] \in Handle' \cup {NoHandle} /\ left[t] \in SUBSET Handle'
  BY <1>1 DEF RegistryTypes
<1> QED BY <1>1, <1>2, <1>3, TypesMove

\* Making an index.
LEMMA TypesCreate ==
    ASSUME RegistryTypes, NEW t \in Tasks, Create(t)
    PROVE  RegistryTypes'
<1> USE DEF disk, ghosts
<1>1. CASE WriteLock(t)
  <2>1. WorldTypes' /\ made' = made
    BY <1>1, WorldSame DEF WriteLock
  <2>2. /\ name[t] \in Names /\ UNCHANGED <<name, kind, mine, left>>
        /\ Goto(t, IF kind[t] = "create_index" THEN "make" ELSE "remove")
    BY <1>1 DEF WriteLock, RegistryTypes
  <2> QED BY <2>1, <2>2, TypesKeep DEF Places, WritePlaces
<1>2. CASE MakeDirs(t)
  <2>1. name[t] \in Names
    BY <1>2 DEF MakeDirs, RegistryTypes
  <2>2. WorldTypes' /\ made' = made
    BY <1>2, <2>1 DEF MakeDirs, RegistryTypes, WorldTypes, Handle, DirStates
  <2>3. Goto(t, "meta") /\ UNCHANGED <<name, kind, mine, left>>
    BY <1>2 DEF MakeDirs, Keep
  <2> QED BY <2>1, <2>2, <2>3, TypesKeep DEF Places, WritePlaces
<1>3. CASE AlreadyExists(t) \/ MetadataFails(t)
  BY <1>3, WorldSame, TypesGone DEF AlreadyExists, MetadataFails
<1>4. CASE WriteMetadata(t)
  <2>1. name[t] \in Names
    BY <1>4 DEF WriteMetadata, RegistryTypes, WritePlaces
  <2>2. WorldTypes' /\ made' = made
    BY <1>4, <2>1 DEF WriteMetadata, RegistryTypes, WorldTypes, Handle, DirStates
  <2>3. Goto(t, "reopen") /\ UNCHANGED <<name, kind, mine, left>>
    BY <1>4 DEF WriteMetadata, Keep
  <2> QED BY <2>1, <2>2, <2>3, TypesKeep DEF Places, WritePlaces
<1>5. CASE Reopen(t)
  <2>1. name[t] \in Names /\ Opened(t, "publish")
    BY <1>5 DEF Reopen, RegistryTypes
  <2> QED BY <2>1, TypesOpened DEF Places, WritePlaces
<1>6. CASE Publish(t)
  <2>1. name[t] \in Names /\ mine[t] \in Handle
    BY <1>6 DEF Publish, RegistryTypes
  <2>2. WorldTypes' /\ made' = made
    BY <1>6, <2>1 DEF Publish, RegistryTypes, WorldTypes, Handle
  <2> QED BY <1>6, <2>2, TypesGone DEF Publish
<1> QED BY <1>1, <1>2, <1>3, <1>4, <1>5, <1>6 DEF Create

\* What a removal that was cut short leaves is a directory or nothing.
LEMMA RemainsType ==
    ASSUME RegistryTypes, NEW n \in Names, NEW rest \in Remains(n)
    PROVE  rest \in DirStates
BY DEF Remains, RegistryTypes, DirStates

\* Removing an index.
LEMMA TypesDelete ==
    ASSUME RegistryTypes, NEW t \in Tasks, Delete(t)
    PROVE  RegistryTypes'
<1> USE DEF disk, ghosts
<1>1. CASE StartRemoval(t)
  <2>1. name[t] \in Names
    BY <1>1 DEF StartRemoval, RegistryTypes
  <2>2. WorldTypes' /\ made' = made
    BY <1>1, <2>1 DEF StartRemoval, RegistryTypes, WorldTypes, Handle
  <2>3. Goto(t, "removing") /\ UNCHANGED <<name, kind, mine, left>>
    BY <1>1 DEF StartRemoval, Keep
  <2> QED BY <2>1, <2>2, <2>3, TypesKeep DEF Places, WritePlaces
<1>2. CASE NotFound(t)
  BY <1>2, WorldSame, TypesGone DEF NotFound
<1>3. CASE FinishRemoval(t)
  <2>1. name[t] \in Names
    BY <1>3 DEF FinishRemoval, RegistryTypes
  <2>2. WorldTypes' /\ made' = made
    BY <1>3, <2>1 DEF FinishRemoval, RegistryTypes, WorldTypes, Handle, DirStates
  <2>3. Goto(t, "removed") /\ UNCHANGED <<name, kind, mine, left>>
    BY <1>3 DEF FinishRemoval, Keep
  <2> QED BY <2>1, <2>2, <2>3, TypesKeep DEF Places, WritePlaces
<1>4. CASE RemovalFails(t)
  <2>1. name[t] \in Names
    BY <1>4 DEF RemovalFails, RegistryTypes
  <2>2. PICK rest \in Remains(name[t]) : dir' = [dir EXCEPT ![name[t]] = rest]
    BY <1>4 DEF RemovalFails
  <2>3. rest \in DirStates
    BY <2>1, RemainsType
  <2>4. WorldTypes' /\ made' = made
    BY <1>4, <2>1, <2>2, <2>3 DEF RemovalFails, RegistryTypes, WorldTypes, Handle
  <2> QED BY <1>4, <2>4, TypesGone DEF RemovalFails
<1>5. CASE Forget(t)
  <2>1. name[t] \in Names
    BY <1>5 DEF Forget, RegistryTypes
  <2>2. WorldTypes' /\ made' = made
    BY <1>5, <2>1 DEF Forget, RegistryTypes, WorldTypes, Handle
  <2> QED BY <1>5, <2>2, TypesGone DEF Forget
<1> QED BY <1>1, <1>2, <1>3, <1>4, <1>5 DEF Delete

\* Every step keeps the types.
LEMMA TypesStep ==
    ASSUME RegistryTypes, [Next]_vars
    PROVE  RegistryTypes'
<1>1. ASSUME NEW t \in Tasks, Step(t) PROVE RegistryTypes'
  BY <1>1, TypesLookup, TypesUse, TypesCreate, TypesDelete DEF Step
<1>2. ASSUME NEW t \in Tasks, Drop(t) PROVE RegistryTypes'
  <2>1. name[t] \in Names \/ ~(pc[t] \in {"meta", "removing", "removed"})
    BY DEF RegistryTypes
  <2>2. dir' \in [Names -> DirStates]
    BY <1>2, <2>1 DEF Drop, RegistryTypes, DirStates
  <2>3. detached' \subseteq Names /\ halfway' \subseteq Names
    BY <1>2, <2>1 DEF Drop, RegistryTypes
  <2>4. WorldTypes' /\ made' = made
    BY <1>2, <2>2, <2>3 DEF Drop, RegistryTypes, WorldTypes, Handle
  <2> QED BY <1>2, <2>4, TypesGone DEF Drop
<1>3. ASSUME NEW n \in Names, DetachedRemoval(n) PROVE RegistryTypes'
  <2>1. Handle' = Handle
    BY <1>3 DEF DetachedRemoval, Handle
  <2>2. dir' \in [Names -> DirStates] /\ detached' \subseteq Names /\ halfway' \subseteq Names
    BY <1>3 DEF DetachedRemoval, RegistryTypes, DirStates
  <2> QED BY <1>3, <2>1, <2>2 DEF DetachedRemoval, RegistryTypes
<1>4. CASE Restart
  <2> DEFINE cut == detached \cup {name[t] : t \in {u \in Tasks : pc[u] = "removing"}}
  <2>1. PICK rest \in [cut -> DirStates] :
            /\ dir' = [n \in Names |-> IF n \in cut THEN rest[n] ELSE dir[n]]
            /\ known' = [n \in Names |-> IF n \in cut \cup halfway THEN "none" ELSE known[n]]
    BY <1>4 DEF Restart
  <2> HIDE DEF cut
  <2>2. dir' \in [Names -> DirStates] /\ known' \in [Names -> {"none", "exists", "deleted"}]
    BY <2>1 DEF RegistryTypes
  <2>3. Handle' = Handle /\ UNCHANGED <<epoch, made, revived>> /\ faults' \in Nat
    BY <1>4 DEF Restart, Handle, RegistryTypes
  <2>4. /\ detached' = {} /\ halfway' = {}
        /\ handles' = [n \in Names |-> NoHandle]
        /\ pc' = [t \in Tasks |-> "idle"] /\ name' = [t \in Tasks |-> NoName]
        /\ kind' = [t \in Tasks |-> "request"]
        /\ mine' = [t \in Tasks |-> NoHandle] /\ left' = [t \in Tasks |-> {}]
    BY <1>4 DEF Restart
  <2> QED BY <2>2, <2>3, <2>4 DEF RegistryTypes, Places, Kinds
<1>5. CASE UNCHANGED vars
  <2>1. Handle' = Handle
    BY <1>5 DEF vars, Handle
  <2> QED BY <1>5, <2>1 DEF vars, RegistryTypes
<1> QED BY <1>1, <1>2, <1>3, <1>4, <1>5, TypesStart DEF Next

-----------------------------------------------------------------------------
\* The queue of the lock.

Waiting == {"slow", "wait"}

\* Whoever waits for the registry's lock stands in its queue, once, and nobody else
\* does: no task that has gone away stays at the head and blocks the others.
QueueExact ==
    /\ queue \in Seq(Tasks)
    /\ \A i, j \in DOMAIN queue : queue[i] = queue[j] => i = j
    /\ \A t \in Tasks : pc[t] \in Waiting <=> \E i \in DOMAIN queue : queue[i] = t

\* A task that begins to wait goes to the end of the queue.
LEMMA QueueJoin ==
    ASSUME RegistryTypes, QueueExact, NEW t \in Tasks, pc[t] \notin Waiting, NEW p \in Waiting,
           queue' = Append(queue, t), Goto(t, p)
    PROVE  QueueExact'
<1> DEFINE n == Len(queue)
<1>1. /\ queue' \in Seq(Tasks) /\ n \in Nat /\ DOMAIN queue = 1..n /\ DOMAIN queue' = 1..(n + 1)
      /\ queue'[n + 1] = t /\ \A i \in 1..n : queue'[i] = queue[i]
  BY DEF QueueExact
<1>2. \A i \in 1..n : queue[i] # t
  BY <1>1 DEF QueueExact
<1>3. \A i, j \in 1..(n + 1) : queue'[i] = queue'[j] => i = j
  <2> TAKE i, j \in 1..(n + 1)
  <2> HIDE DEF n
  <2>1. (i \in 1..n \/ i = n + 1) /\ (j \in 1..n \/ j = n + 1)
    BY <1>1
  <2> QED BY <1>1, <1>2, <2>1 DEF QueueExact
<1>4. ASSUME NEW u \in Tasks
      PROVE  pc'[u] \in Waiting <=> \E i \in 1..(n + 1) : queue'[i] = u
  <2> HIDE DEF n
  <2>1. CASE u = t
    <3>1. pc'[u] = p /\ n + 1 \in 1..(n + 1)
      BY <1>1, <2>1 DEF Goto, RegistryTypes
    <3> QED BY <1>1, <2>1, <3>1
  <2>2. CASE u # t
    <3>1. pc'[u] = pc[u]
      BY <2>2 DEF Goto, RegistryTypes
    <3>2. (\E i \in 1..(n + 1) : queue'[i] = u) <=> \E i \in 1..n : queue[i] = u
      <4>1. \A i \in 1..(n + 1) : i \in 1..n \/ i = n + 1
        BY <1>1
      <4>2. \A i \in 1..n : i \in 1..(n + 1)
        BY <1>1
      <4> QED BY <1>1, <2>2, <4>1, <4>2
    <3> QED BY <1>1, <3>1, <3>2 DEF QueueExact
  <2> QED BY <2>1, <2>2
<1> QED BY <1>1, <1>3, <1>4 DEF QueueExact

\* Without removes the only occurrence of a task and nothing else.
LEMMA WithoutFacts ==
    ASSUME NEW q \in Seq(Tasks), \A i, j \in DOMAIN q : q[i] = q[j] => i = j, NEW t \in Tasks
    PROVE  /\ Without(q, t) \in Seq(Tasks)
           /\ \A i, j \in DOMAIN Without(q, t) : Without(q, t)[i] = Without(q, t)[j] => i = j
           /\ \A u \in Tasks : (\E i \in DOMAIN Without(q, t) : Without(q, t)[i] = u)
                                  <=> u # t /\ \E i \in DOMAIN q : q[i] = u
<1>1. CASE ~ \E i \in DOMAIN q : q[i] = t
  BY <1>1 DEF Without
<1>2. CASE \E i \in DOMAIN q : q[i] = t
  <2> DEFINE i == CHOOSE j \in DOMAIN q : q[j] = t
             n == Len(q)
             w == Without(q, t)
  <2>1. i \in 1..n /\ q[i] = t /\ n \in Nat /\ DOMAIN q = 1..n
    BY <1>2
  <2>2. w = SubSeq(q, 1, i - 1) \o SubSeq(q, i + 1, n)
    BY <1>2 DEF Without
  <2> HIDE DEF i, n, w
  <2> DEFINE front == SubSeq(q, 1, i - 1)
             back  == SubSeq(q, i + 1, n)
  <2>3. /\ front \in Seq(Tasks) /\ Len(front) = i - 1
        /\ \A k \in 1..(i - 1) : front[k] = q[k]
    <3>1. \A k \in 1..(i - 1) : q[k] \in Tasks
      BY <2>1
    <3>2. 1 \in Int /\ i - 1 \in Int
      BY <2>1
    <3>3. /\ front \in Seq(Tasks) /\ Len(front) = IF 1 <= i - 1 THEN (i - 1) - 1 + 1 ELSE 0
          /\ \A k \in 1..(i - 1) - 1 + 1 : front[k] = q[1 + k - 1]
      BY <3>1, <3>2, SubSeqProperties
    <3> HIDE DEF front
    <3> QED BY <2>1, <3>3
  <2>4. /\ back \in Seq(Tasks) /\ Len(back) = n - i
        /\ \A k \in 1..(n - i) : back[k] = q[i + k]
    <3>1. \A k \in i + 1..n : q[k] \in Tasks
      BY <2>1
    <3>2. i + 1 \in Int /\ n \in Int
      BY <2>1
    <3>3. /\ back \in Seq(Tasks) /\ Len(back) = IF i + 1 <= n THEN n - (i + 1) + 1 ELSE 0
          /\ \A k \in 1..n - (i + 1) + 1 : back[k] = q[i + 1 + k - 1]
      BY <3>1, <3>2, SubSeqProperties
    <3> HIDE DEF back
    <3> QED BY <2>1, <3>3
  <2> HIDE DEF front, back
  <2>5. /\ w \in Seq(Tasks) /\ DOMAIN w = 1..(n - 1)
        /\ \A k \in 1..(n - 1) : w[k] = IF k < i THEN q[k] ELSE q[k + 1]
    <3>1. w = front \o back
      BY <2>2 DEF front, back
    <3>2. /\ w \in Seq(Tasks) /\ Len(w) = (i - 1) + (n - i)
          /\ \A k \in 1..(i - 1) + (n - i) :
                w[k] = IF k <= i - 1 THEN front[k] ELSE back[k - (i - 1)]
      BY <2>3, <2>4, <3>1, ConcatProperties
    <3>3. (i - 1) + (n - i) = n - 1
      BY <2>1
    <3>4. DOMAIN w = 1..(n - 1)
      BY <3>2, <3>3
    <3>5. ASSUME NEW k \in 1..(n - 1) PROVE w[k] = IF k < i THEN q[k] ELSE q[k + 1]
      <4>1. CASE k < i
        BY <2>1, <2>3, <3>2, <3>3, <4>1
      <4>2. CASE ~(k < i)
        <5>1. k - (i - 1) \in 1..(n - i) /\ i + (k - (i - 1)) = k + 1 /\ ~(k <= i - 1)
          BY <2>1, <4>2
        <5> QED BY <2>4, <3>2, <3>3, <4>2, <5>1
      <4> QED BY <4>1, <4>2
    <3> QED BY <3>2, <3>4, <3>5
  <2>6. ASSUME NEW j \in DOMAIN w, NEW k \in DOMAIN w, w[j] = w[k] PROVE j = k
    <3> DEFINE a == IF j < i THEN j ELSE j + 1
               b == IF k < i THEN k ELSE k + 1
    <3>1. a \in DOMAIN q /\ b \in DOMAIN q /\ w[j] = q[a] /\ w[k] = q[b]
      BY <2>1, <2>5
    <3>2. a = b
      BY <2>6, <3>1
    <3> QED BY <2>1, <2>5, <3>2
  <2>7. ASSUME NEW k \in DOMAIN w PROVE w[k] # t /\ \E j \in DOMAIN q : q[j] = w[k]
    <3> DEFINE b == IF k < i THEN k ELSE k + 1
    <3>1. b \in DOMAIN q /\ w[k] = q[b] /\ b # i
      BY <2>1, <2>5
    <3> QED BY <2>1, <3>1
  <2>8. ASSUME NEW j \in DOMAIN q, q[j] # t PROVE \E k \in DOMAIN w : w[k] = q[j]
    <3>1. CASE j < i
      BY <2>1, <2>5, <3>1
    <3>2. CASE j > i
      <4>1. j - 1 \in 1..(n - 1) /\ ~(j - 1 < i) /\ (j - 1) + 1 = j
        BY <2>1, <3>2
      <4> QED BY <2>5, <4>1
    <3> QED BY <2>1, <2>8, <3>1, <3>2
  <2> QED BY <2>5, <2>6, <2>7, <2>8 DEF w
<1> QED BY <1>1, <1>2

\* A task that goes away leaves the queue, wherever it stands.
LEMMA QueueGone ==
    ASSUME RegistryTypes, QueueExact, NEW t \in Tasks, Gone(t)
    PROVE  QueueExact'
<1>1. queue' = Without(queue, t) /\ pc' = [pc EXCEPT ![t] = "idle"]
  BY DEF Gone
<1>2. \A u \in Tasks : pc'[u] \in Waiting <=> u # t /\ pc[u] \in Waiting
  BY <1>1 DEF RegistryTypes, Waiting
<1>3. /\ queue' \in Seq(Tasks)
      /\ \A i, j \in DOMAIN queue' : queue'[i] = queue'[j] => i = j
      /\ \A u \in Tasks : (\E i \in DOMAIN queue' : queue'[i] = u)
                              <=> u # t /\ \E i \in DOMAIN queue : queue[i] = u
  <2> DEFINE q == queue
  <2>1. q \in Seq(Tasks) /\ \A i, j \in DOMAIN q : q[i] = q[j] => i = j
    BY DEF QueueExact
  <2> HIDE DEF q
  <2>2. /\ Without(q, t) \in Seq(Tasks)
        /\ \A i, j \in DOMAIN Without(q, t) : Without(q, t)[i] = Without(q, t)[j] => i = j
        /\ \A u \in Tasks : (\E i \in DOMAIN Without(q, t) : Without(q, t)[i] = u)
                               <=> u # t /\ \E i \in DOMAIN q : q[i] = u
    BY <2>1, WithoutFacts
  <2> QED BY <1>1, <2>2 DEF q
<1> QED BY <1>2, <1>3 DEF QueueExact

\* The task at the head gets the lock.
LEMMA QueueTurn ==
    ASSUME RegistryTypes, QueueExact, NEW t \in Tasks, Turn(t), NEW p, p \notin Waiting,
           queue' = Tail(queue), Goto(t, p)
    PROVE  QueueExact'
<1> DEFINE n == Len(queue)
<1>1. /\ queue' \in Seq(Tasks) /\ n \in Nat /\ n >= 1 /\ DOMAIN queue = 1..n
      /\ DOMAIN queue' = 1..(n - 1) /\ \A i \in 1..(n - 1) : queue'[i] = queue[i + 1]
      /\ queue[1] = t
  BY DEF QueueExact, Turn
<1>2. \A u \in Tasks : pc'[u] \in Waiting <=> u # t /\ pc[u] \in Waiting
  BY DEF Goto, RegistryTypes
<1> HIDE DEF n
<1>3. \A i, j \in 1..(n - 1) : queue'[i] = queue'[j] => i = j
  <2> TAKE i, j \in 1..(n - 1)
  <2>1. i + 1 \in 1..n /\ j + 1 \in 1..n
    BY <1>1
  <2> QED BY <1>1, <2>1 DEF QueueExact
<1>4. ASSUME NEW u \in Tasks
      PROVE  (\E i \in 1..(n - 1) : queue'[i] = u) <=> u # t /\ \E i \in 1..n : queue[i] = u
  <2>1. ASSUME NEW i \in 1..(n - 1), queue'[i] = u PROVE u # t /\ \E j \in 1..n : queue[j] = u
    <3>1. i + 1 \in 1..n /\ 1 \in 1..n /\ i + 1 # 1 /\ queue[i + 1] = u
      BY <1>1, <2>1
    <3> QED BY <1>1, <3>1 DEF QueueExact
  <2>2. ASSUME NEW i \in 1..n, queue[i] = u, u # t PROVE \E j \in 1..(n - 1) : queue'[j] = u
    <3>1. i - 1 \in 1..(n - 1) /\ (i - 1) + 1 = i
      BY <1>1, <2>2
    <3> QED BY <1>1, <2>2, <3>1
  <2> QED BY <2>1, <2>2
<1> QED BY <1>1, <1>2, <1>3, <1>4 DEF QueueExact

\* A task that moves between places where it does not wait leaves the queue alone.
LEMMA QueueKeep ==
    ASSUME RegistryTypes, QueueExact, NEW t \in Tasks, pc[t] \notin Waiting,
           NEW p, p \notin Waiting, Goto(t, p), UNCHANGED queue
    PROVE  QueueExact'
<1>1. \A u \in Tasks : pc'[u] \in Waiting <=> pc[u] \in Waiting
  BY DEF Goto, RegistryTypes
<1> QED BY <1>1 DEF QueueExact

\* So it is after every step.
LEMMA QueueStep ==
    ASSUME RegistryTypes, QueueExact, [Next]_vars
    PROVE  QueueExact'
<1> USE DEF Waiting
<1>1. ASSUME NEW t \in Tasks, Start(t) PROVE QueueExact'
  <2>1. ASSUME NEW n \in Names, StartRequest(t, n) \/ StartBackground(t, n) PROVE QueueExact'
    BY <2>1, QueueKeep DEF StartRequest, StartBackground, Begin
  <2>2. ASSUME NEW n \in Names, NEW k, StartLifecycle(t, n, k) PROVE QueueExact'
    BY <2>2, QueueJoin DEF StartLifecycle, Begin
  <2>3. CASE StartMetrics(t)
    BY <2>3, QueueKeep DEF StartMetrics, Begin
  <2> QED BY <1>1, <2>1, <2>2, <2>3 DEF Start
<1>2. ASSUME NEW t \in Tasks, Lookup(t) PROVE QueueExact'
  <2>1. CASE FastPath(t)
    BY <2>1, QueueKeep, QueueJoin DEF FastPath, Take
  <2>2. CASE ReadLock(t)
    BY <2>2, QueueTurn DEF ReadLock
  <2>3. CASE Recheck(t) \/ Insert(t)
    BY <2>3, QueueKeep DEF Recheck, Insert, Take, Keep
  <2>4. CASE Open(t)
    BY <2>4, QueueKeep DEF Open, Opened
  <2>5. CASE OpenFails(t)
    BY <2>5, QueueGone DEF OpenFails
  <2> QED BY <1>2, <2>1, <2>2, <2>3, <2>4, <2>5 DEF Lookup
<1>3. ASSUME NEW t \in Tasks, Use(t) PROVE QueueExact'
  <2>1. CASE Permit(t) \/ Lock(t)
    BY <2>1, QueueKeep DEF Permit, Lock, Keep
  <2>2. CASE Work(t) \/ MakesDirectory(t) \/ PersistsMappings(t) \/ Visited(t)
    BY <2>2, QueueGone DEF Work, MakesDirectory, PersistsMappings, Visited
  <2>3. CASE Visit(t)
    BY <2>3 DEF Visit, QueueExact
  <2> QED BY <1>3, <2>1, <2>2, <2>3 DEF Use
<1>4. ASSUME NEW t \in Tasks, Create(t) PROVE QueueExact'
  <2>1. CASE WriteLock(t)
    BY <2>1, QueueTurn DEF WriteLock
  <2>2. CASE MakeDirs(t) \/ WriteMetadata(t)
    BY <2>2, QueueKeep DEF MakeDirs, WriteMetadata, Keep
  <2>3. CASE AlreadyExists(t) \/ MetadataFails(t) \/ Publish(t)
    BY <2>3, QueueGone DEF AlreadyExists, MetadataFails, Publish
  <2>4. CASE Reopen(t)
    BY <2>4, QueueKeep DEF Reopen, Opened
  <2> QED BY <1>4, <2>1, <2>2, <2>3, <2>4 DEF Create
<1>5. ASSUME NEW t \in Tasks, Delete(t) PROVE QueueExact'
  <2>1. CASE StartRemoval(t) \/ FinishRemoval(t)
    BY <2>1, QueueKeep DEF StartRemoval, FinishRemoval, Keep
  <2>2. CASE NotFound(t) \/ RemovalFails(t) \/ Forget(t)
    BY <2>2, QueueGone DEF NotFound, RemovalFails, Forget
  <2> QED BY <1>5, <2>1, <2>2 DEF Delete
<1>6. ASSUME NEW t \in Tasks, Drop(t) PROVE QueueExact'
  BY <1>6, QueueGone DEF Drop
<1>7. ASSUME NEW n \in Names, DetachedRemoval(n) PROVE QueueExact'
  BY <1>7 DEF DetachedRemoval, QueueExact
<1>8. CASE Restart
  <2>1. queue' = <<>> /\ pc' = [t \in Tasks |-> "idle"]
    BY <1>8 DEF Restart
  <2> QED BY <2>1 DEF QueueExact
<1>9. CASE UNCHANGED vars
  BY <1>9 DEF vars, QueueExact
<1> QED BY <1>1, <1>2, <1>3, <1>4, <1>5, <1>6, <1>7, <1>8, <1>9 DEF Next, Step

\* Nobody waits at first.
LEMMA QueueInit == Init => QueueExact
<1> SUFFICES ASSUME Init PROVE QueueExact
  OBVIOUS
<1>1. queue = <<>> /\ pc = [t \in Tasks |-> "idle"]
  BY DEF Init
<1> QED BY <1>1 DEF QueueExact, Waiting

\* Whoever waits for the registry's lock stands in its queue, once, and nobody else.
THEOREM NobodyIsOverlooked == Spec => []QueueExact
<1>1. Init => RegistryTypes /\ QueueExact
  BY TypesInit, QueueInit
<1>2. RegistryTypes /\ QueueExact /\ [Next]_vars => (RegistryTypes /\ QueueExact)'
  BY TypesStep, QueueStep
<1> QED BY <1>1, <1>2, PTL DEF Spec

\* The variables of the registry keep their types, the queue of its lock included.
THEOREM RegistryTyping == Spec => []TypeOK
<1>1. RegistryTypes /\ QueueExact => TypeOK
  BY DEF TypeOK, QueueExact
<1>2. Spec => []RegistryTypes
  BY TypesInit, TypesStep, PTL DEF Spec
<1> QED BY <1>1, <1>2, NobodyIsOverlooked, PTL

-----------------------------------------------------------------------------
\* The registry's lock.

UsePlaces  == {"permit", "queued", "busy"}
ReadPlaces == {"recheck", "open", "insert"}

\* Exclusion is kept when a task moves into a critical section that is free.
LEMMA ExclusionMove ==
    ASSUME RegistryTypes, Exclusion, NEW t \in Tasks, NEW p, Goto(t, p),
           p \in WritePlaces => HoldsWrite(t) \/ CanWrite,
           p \in ReadPlaces => HoldsRead(t) \/ CanRead
    PROVE  Exclusion'
<1>1. pc'[t] = p /\ \A u \in Tasks : u # t => pc'[u] = pc[u]
  BY DEF Goto, RegistryTypes
<1> QED BY <1>1 DEF Exclusion, HoldsWrite, HoldsRead, CanWrite, CanRead, ReadPlaces, WritePlaces

\* Every step keeps it.
LEMMA ExclusionStep ==
    ASSUME RegistryTypes, Exclusion, [Next]_vars
    PROVE  Exclusion'
<1> USE DEF WritePlaces, ReadPlaces
<1>1. ASSUME NEW t \in Tasks, Start(t) PROVE Exclusion'
  BY <1>1, ExclusionMove
     DEF Start, StartRequest, StartBackground, StartLifecycle, StartMetrics, Begin
<1>2. ASSUME NEW t \in Tasks, Lookup(t) PROVE Exclusion'
  BY <1>2, ExclusionMove
     DEF Lookup, FastPath, ReadLock, Recheck, Open, Opened, OpenFails, Insert, Take, Gone, Goto,
         HoldsRead
<1>3. ASSUME NEW t \in Tasks, Use(t) PROVE Exclusion'
  <2>1. CASE Visit(t)
    BY <2>1 DEF Visit, Exclusion, HoldsWrite, HoldsRead
  <2> QED BY <1>3, <2>1, ExclusionMove
          DEF Use, Permit, Lock, Work, MakesDirectory, PersistsMappings, Visited, Gone, Goto
<1>4. ASSUME NEW t \in Tasks, Create(t) PROVE Exclusion'
  BY <1>4, ExclusionMove
     DEF Create, WriteLock, MakeDirs, AlreadyExists, WriteMetadata, MetadataFails, Reopen, Opened,
         Publish, Gone, Goto, HoldsWrite
<1>5. ASSUME NEW t \in Tasks, Delete(t) PROVE Exclusion'
  BY <1>5, ExclusionMove
     DEF Delete, StartRemoval, NotFound, FinishRemoval, RemovalFails, Forget, Gone, Goto, HoldsWrite
<1>6. ASSUME NEW t \in Tasks, Drop(t) PROVE Exclusion'
  BY <1>6, ExclusionMove DEF Drop, Gone, Goto
<1>7. ASSUME NEW n \in Names, DetachedRemoval(n) PROVE Exclusion'
  BY <1>7 DEF DetachedRemoval, Exclusion, HoldsWrite, HoldsRead
<1>8. CASE Restart
  BY <1>8 DEF Restart, Exclusion, HoldsWrite, HoldsRead
<1>9. CASE UNCHANGED vars
  BY <1>9 DEF vars, Exclusion, HoldsWrite, HoldsRead
<1> QED BY <1>1, <1>2, <1>3, <1>4, <1>5, <1>6, <1>7, <1>8, <1>9 DEF Next, Step

\* A task that holds the lock for writing is alone with it.
LEMMA Alone ==
    ASSUME Exclusion, NEW t \in Tasks, pc[t] \in WritePlaces
    PROVE  \A u \in Tasks : u # t => pc[u] \notin WritePlaces /\ pc[u] \notin ReadPlaces
BY DEF Exclusion, HoldsWrite, HoldsRead, ReadPlaces

-----------------------------------------------------------------------------
\* Handles in use.

\* A handle is in use when a task works with it or the map has it.
LEMMA InUseIs ==
    /\ \A h : h \in InUse <=> \/ \E t \in Tasks : pc[t] \in UsePlaces /\ mine[t] = h
                             \/ \E n \in Names : handles[n] = h /\ h # NoHandle
    /\ \A h : (h \in InUse)' <=> \/ \E t \in Tasks : pc'[t] \in UsePlaces /\ mine'[t] = h
                                \/ \E n \in Names : handles'[n] = h /\ h # NoHandle
BY DEF InUse, UsePlaces

\* Everything in use is a handle.
LEMMA InUseHandle ==
    ASSUME RegistryTypes
    PROVE  InUse \subseteq Handle
BY DEF InUse, RegistryTypes

\* When only one task moves, what it then uses is all that can be new.
LEMMA InUseMove ==
    ASSUME RegistryTypes, NEW t \in Tasks, handles' = handles,
           \A u \in Tasks : u # t => pc'[u] = pc[u] /\ mine'[u] = mine[u],
           pc'[t] \in UsePlaces => mine'[t] \in InUse
    PROVE  InUse' \subseteq InUse
BY InUseIs

-----------------------------------------------------------------------------
\* Steps that change neither the directories nor the map.

SpecialPlaces == {"insert", "meta", "reopen", "publish", "removing", "removed"}

\* The invariant is kept by a task that goes to a place it says nothing of, and
\* that uses no handle which is not in use already.
LEMMA Quiet ==
    ASSUME RegistryInv, RegistryTypes', Exclusion', NEW t \in Tasks,
           UNCHANGED <<dir, epoch, handles, made, known, halfway, revived>>,
           \A u \in Tasks : u # t => pc'[u] = pc[u] /\ name'[u] = name[u] /\ mine'[u] = mine[u],
           pc[t] # "removed", pc'[t] \notin SpecialPlaces,
           pc'[t] \in UsePlaces => mine'[t] \in InUse
    PROVE  RegistryInv'
<1>0. RegistryTypes /\ InUse' \subseteq InUse
  BY InUseMove DEF RegistryInv
<1>1. \A n : Incarnation(n)' = Incarnation(n) /\ Disturbed(n)' = Disturbed(n)
  BY DEF Incarnation, Disturbed
<1>2. Fresh'
  BY <1>1 DEF RegistryInv, Fresh, SpecialPlaces
<1>3. Creating'
  BY <1>0, <1>1 DEF RegistryInv, Creating, SpecialPlaces
<1>4. Deleting'
  BY <1>1 DEF RegistryInv, Deleting, SpecialPlaces
<1>5. NotAhead' /\ OneHandle'
  BY <1>0 DEF RegistryInv, NotAhead, OneHandle
<1>6. UsedIsCached'
  BY <1>0, <1>1 DEF RegistryInv, UsedIsCached, Unopenable, SpecialPlaces
<1>7. CacheIsCurrent'
  BY <1>1 DEF RegistryInv, CacheIsCurrent
<1>8. AckedIsOpen' /\ DeletedIsGone'
  BY <1>1 DEF RegistryInv, AckedIsOpen, DeletedIsGone
<1> QED BY <1>2, <1>3, <1>4, <1>5, <1>6, <1>7, <1>8 DEF RegistryInv

\* A task that ends without having changed anything.
LEMMA QuietGone ==
    ASSUME RegistryInv, RegistryTypes', Exclusion', NEW t \in Tasks, Gone(t), pc[t] # "removed",
           UNCHANGED <<dir, epoch, handles, made, known, halfway, revived>>
    PROVE  RegistryInv'
<1>1. pc'[t] = "idle"
      /\ \A u \in Tasks : u # t => pc'[u] = pc[u] /\ name'[u] = name[u] /\ mine'[u] = mine[u]
  BY DEF Gone, RegistryInv, RegistryTypes
<1> QED BY <1>1, Quiet DEF SpecialPlaces, UsePlaces

\* A task that goes on with what it has.
LEMMA QuietKeep ==
    ASSUME RegistryInv, RegistryTypes', Exclusion', NEW t \in Tasks, NEW p, Goto(t, p),
           UNCHANGED <<name, mine, dir, epoch, handles, made, known, halfway, revived>>,
           pc[t] # "removed", p \notin SpecialPlaces, p \in UsePlaces => pc[t] \in UsePlaces
    PROVE  RegistryInv'
<1>1. pc'[t] = p /\ \A u \in Tasks : u # t => pc'[u] = pc[u]
  BY DEF Goto, RegistryInv, RegistryTypes
<1>2. p \in UsePlaces => mine[t] \in InUse
  BY InUseIs
<1> QED BY <1>1, <1>2, Quiet

\* A task that takes a handle out of the map.
LEMMA QuietTake ==
    ASSUME RegistryInv, RegistryTypes', Exclusion', NEW t \in Tasks, NEW n \in Names,
           handles[n] # NoHandle, Take(t, handles[n]), pc[t] # "removed",
           UNCHANGED <<dir, epoch, handles, made, known, halfway, revived>>
    PROVE  RegistryInv'
<1>1. /\ pc'[t] = "queued" /\ mine'[t] = handles[n] /\ name' = name
      /\ \A u \in Tasks : u # t => pc'[u] = pc[u] /\ mine'[u] = mine[u]
  BY DEF Take, Goto, RegistryInv, RegistryTypes
<1>2. handles[n] \in InUse
  BY InUseIs
<1> QED BY <1>1, <1>2, Quiet DEF SpecialPlaces

\* Starting a task.
LEMMA InvStart ==
    ASSUME RegistryInv, RegistryTypes', Exclusion', NEW t \in Tasks, Start(t)
    PROVE  RegistryInv'
<1> USE DEF disk, ghosts, SpecialPlaces, UsePlaces
<1>0. RegistryTypes
  BY DEF RegistryInv
<1>1. ASSUME NEW n \in Names, StartBackground(t, n) PROVE RegistryInv'
  <2>1. /\ pc[t] = "idle" /\ pc'[t] = "permit" /\ mine'[t] = handles[n]
        /\ \A u \in Tasks : u # t => pc'[u] = pc[u] /\ name'[u] = name[u] /\ mine'[u] = mine[u]
    BY <1>0, <1>1 DEF StartBackground, Begin, Goto, RegistryTypes
  <2>2. handles[n] \in InUse
    BY <1>1, InUseIs DEF StartBackground
  <2>3. UNCHANGED <<dir, epoch, handles, made, known, halfway, revived>>
    BY <1>1 DEF StartBackground
  <2> QED BY <2>1, <2>2, <2>3, Quiet
<1>2. ASSUME NEW n, NEW k, NEW p \in {"lookup", "wait", "visit"}, Begin(t, k, n, p),
             UNCHANGED <<dir, epoch, handles, made, known, halfway, mine, revived>>
      PROVE  RegistryInv'
  <2>1. /\ pc[t] = "idle" /\ pc'[t] = p
        /\ \A u \in Tasks : u # t => pc'[u] = pc[u] /\ name'[u] = name[u] /\ mine'[u] = mine[u]
    BY <1>0, <1>2 DEF Begin, Goto, RegistryTypes
  <2> QED BY <1>2, <2>1, Quiet
<1> QED BY <1>1, <1>2 DEF Start, StartRequest, StartLifecycle, StartMetrics

\* The quiet steps of a task.
LEMMA InvQuiet ==
    ASSUME RegistryInv, RegistryTypes', Exclusion', NEW t \in Tasks,
           \/ FastPath(t) \/ ReadLock(t) \/ Recheck(t) \/ OpenFails(t)
           \/ Permit(t) \/ Lock(t) \/ Work(t) \/ Visit(t) \/ Visited(t)
           \/ WriteLock(t) \/ AlreadyExists(t) \/ MetadataFails(t) \/ NotFound(t)
    PROVE  RegistryInv'
<1> USE DEF disk, ghosts
<1>0. RegistryTypes
  BY DEF RegistryInv
<1>1. CASE FastPath(t)
  <2>1. name[t] \in Names
    BY <1>0, <1>1 DEF FastPath, RegistryTypes
  <2>2. CASE handles[name[t]] # NoHandle
    BY <1>1, <2>1, <2>2, QuietTake DEF FastPath
  <2>3. CASE handles[name[t]] = NoHandle
    BY <1>1, <2>3, QuietKeep DEF FastPath, SpecialPlaces, UsePlaces
  <2> QED BY <2>2, <2>3
<1>2. CASE Recheck(t)
  <2>1. name[t] \in Names
    BY <1>0, <1>2 DEF Recheck, RegistryTypes
  <2>2. CASE handles[name[t]] # NoHandle
    BY <1>2, <2>1, <2>2, QuietTake DEF Recheck
  <2>3. CASE handles[name[t]] = NoHandle
    BY <1>2, <2>3, QuietKeep DEF Recheck, Keep, SpecialPlaces, UsePlaces
  <2> QED BY <2>2, <2>3
<1>3. CASE ReadLock(t)
  BY <1>3, QuietKeep DEF ReadLock, SpecialPlaces, UsePlaces
<1>4. CASE Permit(t) \/ Lock(t)
  BY <1>4, QuietKeep DEF Permit, Lock, Keep, SpecialPlaces, UsePlaces
<1>5. CASE WriteLock(t)
  BY <1>5, QuietKeep DEF WriteLock, SpecialPlaces, UsePlaces
<1>6. CASE Visit(t)
  BY <1>6, Quiet DEF Visit, SpecialPlaces, UsePlaces
<1>7. CASE \/ OpenFails(t) \/ Work(t) \/ Visited(t) \/ AlreadyExists(t) \/ MetadataFails(t)
           \/ NotFound(t)
  BY <1>7, QuietGone DEF OpenFails, Work, Visited, AlreadyExists, MetadataFails, NotFound
<1> QED BY <1>1, <1>2, <1>3, <1>4, <1>5, <1>6, <1>7

-----------------------------------------------------------------------------
\* Lookups that open an index or put a handle into the map.

\* open_index adds a handle of the present incarnation, and none to those in use.
LEMMA InvOpened ==
    ASSUME RegistryInv, RegistryTypes', Exclusion', NEW t \in Tasks,
           NEW p \in {"insert", "publish"}, Opened(t, p),
           p = "insert" => pc[t] = "open", p = "publish" => pc[t] = "reopen"
    PROVE  RegistryInv'
<1> USE DEF SpecialPlaces
<1>0. RegistryTypes /\ name[t] \in Names /\ pc[t] \in {"open", "reopen"}
  BY DEF RegistryInv, RegistryTypes
<1>1. /\ UNCHANGED <<epoch, handles, known, halfway, name, revived>>
      /\ dir[name[t]] \in {"created", "open"} /\ dir'[name[t]] = "open"
      /\ \A n \in Names : n # name[t] => dir'[n] = dir[n]
      /\ pc'[t] = p /\ \A u \in Tasks : u # t => pc'[u] = pc[u]
  BY <1>0 DEF Opened, Goto, RegistryTypes, ghosts
<1>2. /\ \A h \in Handle : made'[h] = made[h]
      /\ made'[mine'[t]] = Incarnation(name[t])
      /\ \A u \in Tasks : u # t => mine'[u] = mine[u]
  <2>1. p \in Places
    BY DEF Places, WritePlaces
  <2> QED BY <1>0, <2>1, OpenedHandle DEF RegistryTypes
<1>3. InUse' \subseteq InUse /\ InUse \subseteq Handle
  BY <1>0, <1>1, <1>2, InUseMove, InUseHandle DEF UsePlaces
<1>4. \A n : Incarnation(n)' = Incarnation(n) /\ Disturbed(n)' = Disturbed(n)
  BY <1>1 DEF Incarnation, Disturbed
<1>5. Fresh'
  <2> SUFFICES ASSUME NEW u \in Tasks, pc'[u] \in {"insert", "publish"}
               PROVE  /\ made'[mine'[u]] = Incarnation(name[u])'
                      /\ dir'[name'[u]] = "open" \/ Disturbed(name[u])'
    BY DEF Fresh
  <2>1. CASE u = t
    BY <1>1, <1>2, <1>4, <2>1
  <2>2. CASE u # t
    <3>1. mine[u] \in Handle /\ name[u] \in Names /\ pc[u] = pc'[u]
      BY <1>0, <1>1, <2>2 DEF RegistryTypes
    <3>2. made[mine[u]] = Incarnation(name[u]) /\ (dir[name[u]] = "open" \/ Disturbed(name[u]))
      BY <3>1 DEF RegistryInv, Fresh
    <3> QED BY <1>1, <1>2, <1>4, <2>2, <3>1, <3>2
  <2> QED BY <2>1, <2>2
<1>6. Creating'
  <2> SUFFICES ASSUME NEW u \in Tasks, pc'[u] \in {"meta", "reopen", "publish"}
               PROVE  /\ known'[name'[u]] = "none"
                      /\ \A h \in InUse' : made'[h] # Incarnation(name[u])'
    BY DEF Creating
  <2>1. pc[u] \in {"meta", "reopen", "publish"} /\ name'[u] = name[u]
    BY <1>1
  <2>2. known[name[u]] = "none" /\ \A h \in InUse : made[h] # Incarnation(name[u])
    BY <2>1 DEF RegistryInv, Creating
  <2> QED BY <1>1, <1>2, <1>3, <1>4, <2>1, <2>2
<1>7. Deleting'
  <2> SUFFICES ASSUME NEW u \in Tasks, pc'[u] \in {"removing", "removed"}
               PROVE  /\ known'[name'[u]] = "none"
                      /\ pc'[u] = "removed" => \/ dir'[name'[u]] \in {"none", "skeleton"}
                                              \/ Incarnation(name[u])' \in revived'
    BY DEF Deleting
  <2>1. u # t /\ pc[u] = pc'[u] /\ name[u] \in Names
    BY <1>0, <1>1 DEF RegistryTypes
  <2>2. /\ known[name[u]] = "none"
        /\ pc[u] = "removed" => \/ dir[name[u]] \in {"none", "skeleton"}
                                \/ Incarnation(name[u]) \in revived
    BY <2>1 DEF RegistryInv, Deleting
  <2>3. pc[u] = "removed" => name[u] # name[t] \/ Incarnation(name[u]) \in revived
    BY <1>1, <2>2
  <2> QED BY <1>1, <1>4, <2>1, <2>2, <2>3
<1>8. NotAhead' /\ OneHandle'
  BY <1>1, <1>2, <1>3 DEF RegistryInv, NotAhead, OneHandle
<1>9. UsedIsCached'
  <2> SUFFICES ASSUME NEW h \in InUse', NEW n \in Names, made'[h] = Incarnation(n)'
               PROVE  handles'[n] = h \/ Unopenable(n)' \/ Incarnation(n)' \in revived'
    BY DEF UsedIsCached
  <2>1. h \in InUse /\ made[h] = Incarnation(n)
    BY <1>2, <1>3, <1>4
  <2>2. handles[n] = h \/ Unopenable(n) \/ Incarnation(n) \in revived
    BY <2>1 DEF RegistryInv, UsedIsCached
  <2>3. Unopenable(n) => n # name[t]
    BY <1>1 DEF Unopenable
  <2> QED BY <1>1, <1>4, <2>2, <2>3 DEF Unopenable
<1>10. CacheIsCurrent'
  <2> SUFFICES ASSUME NEW n \in Names, handles'[n] # NoHandle
               PROVE  \/ made'[handles'[n]] = Incarnation(n)' /\ dir'[n] = "open"
                      \/ Disturbed(n)'
                      \/ \E u \in Tasks : pc'[u] = "removed" /\ name'[u] = n
    BY DEF CacheIsCurrent
  <2>1. handles[n] \in Handle
    BY <1>0, <1>1 DEF RegistryTypes
  <2>2. \/ made[handles[n]] = Incarnation(n) /\ dir[n] = "open"
        \/ Disturbed(n)
        \/ \E u \in Tasks : pc[u] = "removed" /\ name[u] = n
    BY <1>1 DEF RegistryInv, CacheIsCurrent
  <2> QED BY <1>0, <1>1, <1>2, <1>4, <2>1, <2>2
<1>11. AckedIsOpen'
  BY <1>1, <1>4 DEF RegistryInv, AckedIsOpen
<1>12. DeletedIsGone'
  BY <1>1, <1>4 DEF RegistryInv, DeletedIsGone
<1> QED BY <1>5, <1>6, <1>7, <1>8, <1>9, <1>10, <1>11, <1>12 DEF RegistryInv

\* The second half of a lookup puts its handle into the map if none is there.
LEMMA InvInsert ==
    ASSUME RegistryInv, RegistryTypes', Exclusion', NEW t \in Tasks, Insert(t)
    PROVE  RegistryInv'
<1>0. RegistryTypes /\ Exclusion /\ name[t] \in Names /\ pc[t] = "insert"
  BY DEF RegistryInv, RegistryTypes, Insert
<1>1. CASE handles[name[t]] # NoHandle
  BY <1>0, <1>1, QuietTake DEF Insert, disk, ghosts
<1>2. CASE handles[name[t]] = NoHandle
  <2> DEFINE g == mine[t]
             m == name[t]
  <2>1. /\ UNCHANGED <<dir, epoch, made, known, halfway, name, revived>>
        /\ g \in Handle /\ g # NoHandle /\ mine'[t] = g /\ pc'[t] = "queued"
        /\ handles'[m] = g /\ \A n \in Names : n # m => handles'[n] = handles[n]
        /\ \A u \in Tasks : u # t => pc'[u] = pc[u] /\ mine'[u] = mine[u]
    BY <1>0, <1>2 DEF Insert, Take, Goto, RegistryTypes, disk, ghosts
  <2>2. \A n : Incarnation(n)' = Incarnation(n) /\ Disturbed(n)' = Disturbed(n)
    BY <2>1 DEF Incarnation, Disturbed
  <2>3. made[g] = Incarnation(m) /\ (dir[m] = "open" \/ Disturbed(m))
    BY <1>0 DEF RegistryInv, Fresh
  <2>4. \A h \in InUse' : h \in InUse \/ h = g
    BY <1>0, <2>1, InUseIs
  <2>5. \A u \in Tasks : pc[u] \notin WritePlaces
    BY <1>0 DEF Exclusion, HoldsWrite, HoldsRead, WritePlaces
  <2>6. \A u \in Tasks : pc'[u] \notin WritePlaces
    BY <2>1, <2>5 DEF WritePlaces
  <2>7. \A h \in InUse : made[h] # Incarnation(m) \/ Incarnation(m) \in revived
    BY <1>0, <1>2, InUseHandle, NoHandleAssumption
       DEF RegistryInv, UsedIsCached, Unopenable, Handle
  <2> HIDE DEF g, m
  <2>8. Fresh'
    BY <2>1, <2>2 DEF RegistryInv, Fresh
  <2>9. Creating' /\ Deleting'
    BY <2>6 DEF Creating, Deleting, WritePlaces
  <2>10. NotAhead'
    <3>1. made[g].name = m /\ made[g].epoch = epoch[m] /\ epoch[m] \in Nat
      BY <1>0, <2>3 DEF Incarnation, RegistryTypes, m
    <3> QED BY <2>1, <2>4, <3>1 DEF RegistryInv, NotAhead
  <2>11. OneHandle'
    BY <2>1, <2>3, <2>4, <2>7 DEF RegistryInv, OneHandle
  <2>12. UsedIsCached'
    <3> SUFFICES ASSUME NEW h \in InUse', NEW n \in Names, made'[h] = Incarnation(n)'
                 PROVE  handles'[n] = h \/ Unopenable(n)' \/ Incarnation(n)' \in revived'
      BY DEF UsedIsCached
    <3>1. CASE h = g
      BY <2>1, <2>2, <2>3, <3>1 DEF Incarnation
    <3>2. CASE h \in InUse
      BY <2>1, <2>2, <2>7, <3>2 DEF RegistryInv, UsedIsCached, Unopenable
    <3> QED BY <2>4, <3>1, <3>2
  <2>13. CacheIsCurrent'
    BY <2>1, <2>2, <2>3, <2>5 DEF RegistryInv, CacheIsCurrent, WritePlaces
  <2>14. AckedIsOpen'
    BY <2>1, <2>2 DEF RegistryInv, AckedIsOpen
  <2>15. DeletedIsGone'
    BY <2>1, <2>2, <2>3 DEF RegistryInv, DeletedIsGone
  <2> QED BY <2>8, <2>9, <2>10, <2>11, <2>12, <2>13, <2>14, <2>15 DEF RegistryInv
<1> QED BY <1>1, <1>2

-----------------------------------------------------------------------------
\* Steps that change a directory.

\* merge() or create_snapshot makes the directory of a deleted index again.
LEMMA InvMakesDirectory ==
    ASSUME RegistryInv, RegistryTypes', Exclusion', NEW t \in Tasks, MakesDirectory(t)
    PROVE  RegistryInv'
<1> DEFINE m == name[t]
<1>0. RegistryTypes /\ m \in Names
  BY DEF RegistryInv, RegistryTypes, MakesDirectory
<1>1. /\ UNCHANGED <<epoch, handles, made, known, halfway, revived>>
      /\ dir[m] = "none" /\ dir'[m] = "skeleton" /\ \A n \in Names : n # m => dir'[n] = dir[n]
      /\ pc[t] = "busy" /\ pc'[t] = "idle"
      /\ \A u \in Tasks : u # t => pc'[u] = pc[u] /\ name'[u] = name[u] /\ mine'[u] = mine[u]
  BY <1>0 DEF MakesDirectory, Gone, RegistryTypes, ghosts
<1>2. \A n : Incarnation(n)' = Incarnation(n) /\ Disturbed(n)' = Disturbed(n)
  BY <1>1 DEF Incarnation, Disturbed
<1>3. InUse' \subseteq InUse
  BY <1>0, <1>1, InUseMove DEF UsePlaces
<1>4. \A u \in Tasks : pc[u] \in WritePlaces => name[u] \in Names
  BY <1>0 DEF RegistryTypes, WritePlaces
<1>5. \A u \in Tasks : pc[u] = "insert" => name[u] \in Names
  BY <1>0 DEF RegistryTypes
<1> HIDE DEF m
<1>6. Fresh'
  BY <1>1, <1>2, <1>4, <1>5 DEF RegistryInv, Fresh, WritePlaces
<1>7. Creating'
  BY <1>1, <1>2, <1>3 DEF RegistryInv, Creating
<1>8. Deleting'
  BY <1>1, <1>4, <1>2 DEF RegistryInv, Deleting, WritePlaces
<1>9. NotAhead' /\ OneHandle'
  BY <1>1, <1>3 DEF RegistryInv, NotAhead, OneHandle
<1>10. UsedIsCached'
  BY <1>1, <1>2, <1>3 DEF RegistryInv, UsedIsCached, Unopenable
<1>11. CacheIsCurrent'
  BY <1>1, <1>2 DEF RegistryInv, CacheIsCurrent
<1>12. AckedIsOpen' /\ DeletedIsGone'
  BY <1>1, <1>2 DEF RegistryInv, AckedIsOpen, DeletedIsGone
<1> QED BY <1>6, <1>7, <1>8, <1>9, <1>10, <1>11, <1>12 DEF RegistryInv

\* index_document gives a directory its metadata.json back.  From here on its
\* incarnation is one of the exceptions.
LEMMA InvPersistsMappings ==
    ASSUME RegistryInv, RegistryTypes', Exclusion', NEW t \in Tasks, PersistsMappings(t)
    PROVE  RegistryInv'
<1> DEFINE m == name[t]
<1>0. RegistryTypes /\ m \in Names
  BY DEF RegistryInv, RegistryTypes, PersistsMappings
<1>1. /\ UNCHANGED <<epoch, handles, made, known, halfway>>
      /\ dir[m] = "skeleton" /\ dir'[m] = "created" /\ \A n \in Names : n # m => dir'[n] = dir[n]
      /\ revived \subseteq revived' /\ Incarnation(m) \in revived'
      /\ pc[t] = "busy" /\ pc'[t] = "idle"
      /\ \A u \in Tasks : u # t => pc'[u] = pc[u] /\ name'[u] = name[u] /\ mine'[u] = mine[u]
  BY <1>0 DEF PersistsMappings, Gone, RegistryTypes
<1>2. \A n : Incarnation(n)' = Incarnation(n) /\ Disturbed(n)' = Disturbed(n)
  BY <1>1 DEF Incarnation, Disturbed
<1>3. InUse' \subseteq InUse
  BY <1>0, <1>1, InUseMove DEF UsePlaces
<1>4. \A u \in Tasks : pc[u] \in WritePlaces => name[u] \in Names
  BY <1>0 DEF RegistryTypes, WritePlaces
<1>5. \A u \in Tasks : pc[u] = "insert" => name[u] \in Names
  BY <1>0 DEF RegistryTypes
<1> HIDE DEF m
<1>6. Fresh'
  BY <1>1, <1>2, <1>4, <1>5 DEF RegistryInv, Fresh, WritePlaces
<1>7. Creating'
  BY <1>1, <1>2, <1>3 DEF RegistryInv, Creating
<1>8. Deleting'
  <2> SUFFICES ASSUME NEW u \in Tasks, pc'[u] \in {"removing", "removed"}
               PROVE  /\ known'[name'[u]] = "none"
                      /\ pc'[u] = "removed" => \/ dir'[name'[u]] \in {"none", "skeleton"}
                                              \/ Incarnation(name[u])' \in revived'
    BY DEF Deleting
  <2>1. u # t /\ pc[u] = pc'[u] /\ name'[u] = name[u] /\ name[u] \in Names
    BY <1>1, <1>4 DEF WritePlaces
  <2>2. /\ known[name[u]] = "none"
        /\ pc[u] = "removed" => \/ dir[name[u]] \in {"none", "skeleton"}
                                \/ Incarnation(name[u]) \in revived
    BY <2>1 DEF RegistryInv, Deleting
  <2> QED BY <1>1, <1>2, <2>1, <2>2
<1>9. NotAhead' /\ OneHandle'
  BY <1>1, <1>3 DEF RegistryInv, NotAhead, OneHandle
<1>10. UsedIsCached'
  BY <1>1, <1>2, <1>3 DEF RegistryInv, UsedIsCached, Unopenable
<1>11. CacheIsCurrent'
  BY <1>1, <1>2 DEF RegistryInv, CacheIsCurrent
<1>12. AckedIsOpen' /\ DeletedIsGone'
  BY <1>1, <1>2 DEF RegistryInv, AckedIsOpen, DeletedIsGone
<1> QED BY <1>6, <1>7, <1>8, <1>9, <1>10, <1>11, <1>12 DEF RegistryInv

\* create_index makes the directories of a new incarnation, which no handle has.
LEMMA InvMakeDirs ==
    ASSUME RegistryInv, RegistryTypes', Exclusion', NEW t \in Tasks, MakeDirs(t)
    PROVE  RegistryInv'
<1> DEFINE m == name[t]
<1>0. RegistryTypes /\ m \in Names /\ epoch[m] \in Nat
  BY DEF RegistryInv, RegistryTypes, MakeDirs
<1>1. /\ UNCHANGED <<handles, made, halfway, name, mine, revived>>
      /\ dir[m] = "none" /\ dir'[m] = "skeleton" /\ epoch'[m] = epoch[m] + 1 /\ known'[m] = "none"
      /\ \A n \in Names : n # m => dir'[n] = dir[n] /\ epoch'[n] = epoch[n] /\ known'[n] = known[n]
      /\ pc[t] = "make" /\ pc'[t] = "meta" /\ \A u \in Tasks : u # t => pc'[u] = pc[u]
  BY <1>0 DEF MakeDirs, Goto, Keep, RegistryTypes
<1>2. /\ \A n \in Names : n # m => Incarnation(n)' = Incarnation(n)
      /\ Incarnation(m)' = [name |-> m, epoch |-> epoch[m] + 1]
      /\ \A n : Disturbed(n)' = Disturbed(n)
  BY <1>1 DEF Incarnation, Disturbed
<1>3. InUse' \subseteq InUse
  BY <1>0, <1>1, InUseMove DEF UsePlaces
<1>4. \A u \in Tasks : u # t => pc'[u] \notin WritePlaces /\ pc'[u] \notin ReadPlaces
                             /\ pc[u] \notin WritePlaces
  BY <1>1, Alone DEF RegistryInv, WritePlaces
<1>5. ASSUME NEW h \in InUse PROVE made[h] # Incarnation(m)'
  BY <1>0, <1>2 DEF RegistryInv, NotAhead
<1> HIDE DEF m
<1>6. Fresh' /\ Deleting'
  BY <1>1, <1>4 DEF Fresh, Deleting, WritePlaces, ReadPlaces
<1>7. Creating'
  BY <1>1, <1>3, <1>4, <1>5 DEF Creating, WritePlaces, m
<1>8. NotAhead'
  <2> SUFFICES ASSUME NEW h \in InUse' PROVE made[h].epoch <= epoch'[made[h].name]
    BY <1>1 DEF NotAhead
  <2>1. h \in InUse /\ h \in Handle /\ made[h].epoch <= epoch[made[h].name]
    BY <1>0, <1>3, InUseHandle DEF RegistryInv, NotAhead
  <2>2. made[h].name \in Names /\ made[h].epoch \in Nat
    <3>1. made \in Seq([name : Names, epoch : Nat]) /\ h \in 1..Len(made)
      BY <1>0, <2>1 DEF RegistryTypes, Handle
    <3> DEFINE S == [name : Names, epoch : Nat]
    <3>2. made[h] \in S
      <4>1. made \in Seq(S)
        BY <3>1
      <4> HIDE DEF S
      <4> QED BY <3>1, <4>1
    <3> QED BY <3>2
  <2> QED BY <1>0, <1>1, <2>1, <2>2
<1>9. OneHandle'
  BY <1>1, <1>3 DEF RegistryInv, OneHandle
<1>10. UsedIsCached'
  BY <1>1, <1>2, <1>3, <1>4, <1>5 DEF RegistryInv, UsedIsCached, Unopenable, ReadPlaces
<1>11. CacheIsCurrent'
  BY <1>1, <1>2, <1>4 DEF RegistryInv, CacheIsCurrent, WritePlaces
<1>12. AckedIsOpen' /\ DeletedIsGone'
  BY <1>1, <1>2 DEF RegistryInv, AckedIsOpen, DeletedIsGone
<1> QED BY <1>6, <1>7, <1>8, <1>9, <1>10, <1>11, <1>12 DEF RegistryInv

\* metadata.json is written, by the task that goes on or by a thread that it left.
LEMMA InvMetadata ==
    ASSUME RegistryInv, RegistryTypes', Exclusion', NEW t \in Tasks,
           pc[t] = "meta", dir[name[t]] # "none", dir' = [dir EXCEPT ![name[t]] = "created"],
           UNCHANGED <<epoch, handles, made, known, halfway, revived>>,
           pc'[t] \in {"reopen", "idle"}, pc'[t] = "reopen" => name'[t] = name[t],
           \A u \in Tasks : u # t => pc'[u] = pc[u] /\ name'[u] = name[u] /\ mine'[u] = mine[u]
    PROVE  RegistryInv'
<1> DEFINE m == name[t]
<1>0. RegistryTypes /\ m \in Names /\ t \in Tasks
  BY DEF RegistryInv, RegistryTypes
<1>1. dir'[m] = "created" /\ \A n \in Names : n # m => dir'[n] = dir[n]
  BY <1>0 DEF RegistryTypes
<1>2. \A n : Incarnation(n)' = Incarnation(n) /\ Disturbed(n)' = Disturbed(n)
  BY DEF Incarnation, Disturbed
<1>3. InUse' \subseteq InUse
  BY <1>0, InUseMove DEF UsePlaces
<1>4. \A u \in Tasks : u # t => pc[u] \notin WritePlaces /\ pc[u] \notin ReadPlaces
  BY Alone DEF RegistryInv, WritePlaces
<1>5. known[m] = "none" /\ \A h \in InUse : made[h] # Incarnation(m)
  BY DEF RegistryInv, Creating
<1>6. handles[m] # NoHandle => Disturbed(m)
  <2>1. made[handles[m]] = Incarnation(m) /\ handles[m] # NoHandle => FALSE
    BY <1>0, <1>5, InUseIs
  <2> QED BY <1>0, <1>4, <2>1 DEF RegistryInv, CacheIsCurrent, WritePlaces
<1> HIDE DEF m
<1>7. Fresh' /\ Deleting'
  BY <1>4 DEF Fresh, Deleting, WritePlaces, ReadPlaces
<1>8. Creating'
  BY <1>2, <1>3, <1>4, <1>5 DEF Creating, WritePlaces, m
<1>9. NotAhead' /\ OneHandle'
  BY <1>3 DEF RegistryInv, NotAhead, OneHandle
<1>10. UsedIsCached'
  BY <1>1, <1>2, <1>3, <1>4, <1>5 DEF RegistryInv, UsedIsCached, Unopenable, ReadPlaces
<1>11. CacheIsCurrent'
  BY <1>1, <1>2, <1>4, <1>6 DEF RegistryInv, CacheIsCurrent, WritePlaces
<1>12. AckedIsOpen' /\ DeletedIsGone'
  BY <1>1, <1>2, <1>5 DEF RegistryInv, AckedIsOpen, DeletedIsGone
<1> QED BY <1>7, <1>8, <1>9, <1>10, <1>11, <1>12 DEF RegistryInv

\* create_index puts the handle of the new incarnation into the map.
LEMMA InvPublish ==
    ASSUME RegistryInv, RegistryTypes', Exclusion', NEW t \in Tasks, Publish(t)
    PROVE  RegistryInv'
<1> DEFINE m == name[t]
           g == mine[t]
<1>0. RegistryTypes /\ m \in Names /\ g \in Handle /\ g # NoHandle /\ pc[t] = "publish"
  BY DEF RegistryInv, RegistryTypes, Publish
<1>1. /\ UNCHANGED <<dir, epoch, made, revived>>
      /\ handles'[m] = g /\ known'[m] = "exists"
      /\ \A n \in Names : n # m => handles'[n] = handles[n] /\ known'[n] = known[n]
      /\ \A n \in Names : n # m => (n \in halfway' <=> n \in halfway)
      /\ dir[m] # "open" => (m \in halfway' <=> m \in halfway)
      /\ pc'[t] = "idle"
      /\ \A u \in Tasks : u # t => pc'[u] = pc[u] /\ name'[u] = name[u] /\ mine'[u] = mine[u]
  BY <1>0 DEF Publish, Gone, RegistryTypes, disk
<1>2. \A n : Incarnation(n)' = Incarnation(n)
  BY <1>1 DEF Incarnation
<1>3. \A n \in Names : n # m \/ dir[n] # "open" => (Disturbed(n)' <=> Disturbed(n))
  BY <1>0, <1>1 DEF Disturbed
<1>4. \A u \in Tasks : pc'[u] \notin WritePlaces /\ pc'[u] \notin ReadPlaces
                      /\ (u # t => pc[u] \notin WritePlaces)
  BY <1>0, <1>1, Alone DEF RegistryInv, WritePlaces, ReadPlaces
<1>5. made[g] = Incarnation(m) /\ (dir[m] = "open" \/ Disturbed(m))
  BY <1>0 DEF RegistryInv, Fresh
<1>6. \A h \in InUse : made[h] # Incarnation(m)
  BY <1>0 DEF RegistryInv, Creating
<1>7. \A h \in InUse' : h \in InUse \/ h = g
  BY <1>0, <1>1, InUseIs DEF UsePlaces
<1>8. made[g].name = m /\ made[g].epoch = epoch[m] /\ epoch[m] \in Nat
  BY <1>0, <1>5 DEF Incarnation, RegistryTypes
<1> HIDE DEF g, m
<1>9. Fresh' /\ Creating' /\ Deleting'
  BY <1>4 DEF Fresh, Creating, Deleting, WritePlaces, ReadPlaces
<1>10. NotAhead'
  BY <1>1, <1>7, <1>8 DEF RegistryInv, NotAhead
<1>11. OneHandle'
  BY <1>1, <1>5, <1>6, <1>7 DEF RegistryInv, OneHandle
<1>12. UsedIsCached'
  <2> SUFFICES ASSUME NEW h \in InUse', NEW n \in Names, made[h] = Incarnation(n)
               PROVE  handles'[n] = h \/ Unopenable(n)' \/ Incarnation(n)' \in revived'
    BY <1>1, <1>2 DEF UsedIsCached
  <2>1. CASE h = g
    BY <1>1, <1>5, <2>1 DEF Incarnation
  <2>2. CASE h \in InUse
    <3>1. n # m /\ (handles[n] = h \/ Unopenable(n) \/ Incarnation(n) \in revived)
      BY <1>6, <2>2 DEF RegistryInv, UsedIsCached
    <3> QED BY <1>1, <1>2, <1>4, <3>1 DEF Unopenable, ReadPlaces
  <2> QED BY <1>7, <2>1, <2>2
<1>13. CacheIsCurrent'
  BY <1>1, <1>2, <1>3, <1>4, <1>5, <1>0 DEF RegistryInv, CacheIsCurrent, WritePlaces
<1>14. AckedIsOpen' /\ DeletedIsGone'
  BY <1>1, <1>2, <1>3, <1>5 DEF RegistryInv, AckedIsOpen, DeletedIsGone
<1> QED BY <1>9, <1>10, <1>11, <1>12, <1>13, <1>14 DEF RegistryInv

-----------------------------------------------------------------------------
\* Steps of a removal.

\* delete_index has found the directory and is about to remove it.
LEMMA InvStartRemoval ==
    ASSUME RegistryInv, RegistryTypes', Exclusion', NEW t \in Tasks, StartRemoval(t)
    PROVE  RegistryInv'
<1> DEFINE m == name[t]
<1>0. RegistryTypes /\ m \in Names /\ pc[t] = "remove"
  BY DEF RegistryInv, RegistryTypes, StartRemoval
<1>1. /\ UNCHANGED <<dir, epoch, handles, made, halfway, name, mine, revived>>
      /\ known'[m] = "none" /\ \A n \in Names : n # m => known'[n] = known[n]
      /\ pc'[t] = "removing" /\ \A u \in Tasks : u # t => pc'[u] = pc[u]
  BY <1>0 DEF StartRemoval, Goto, Keep, RegistryTypes, disk
<1>2. \A n : Incarnation(n)' = Incarnation(n) /\ Disturbed(n)' = Disturbed(n)
  BY <1>1 DEF Incarnation, Disturbed
<1>3. InUse' \subseteq InUse
  BY <1>0, <1>1, InUseMove DEF UsePlaces
<1>4. \A u \in Tasks : u # t => pc'[u] \notin WritePlaces /\ pc'[u] \notin ReadPlaces
  BY <1>0, <1>1, Alone DEF RegistryInv, WritePlaces
<1>5. Fresh' /\ Creating' /\ Deleting'
  BY <1>1, <1>4 DEF Fresh, Creating, Deleting, WritePlaces, ReadPlaces
<1>6. NotAhead' /\ OneHandle'
  BY <1>1, <1>3 DEF RegistryInv, NotAhead, OneHandle
<1>7. UsedIsCached'
  BY <1>1, <1>2, <1>3 DEF RegistryInv, UsedIsCached, Unopenable
<1>8. CacheIsCurrent'
  BY <1>0, <1>1, <1>2 DEF RegistryInv, CacheIsCurrent
<1>9. AckedIsOpen' /\ DeletedIsGone'
  BY <1>1, <1>2 DEF RegistryInv, AckedIsOpen, DeletedIsGone
<1> QED BY <1>5, <1>6, <1>7, <1>8, <1>9 DEF RegistryInv

\* The directory is gone.
LEMMA InvFinishRemoval ==
    ASSUME RegistryInv, RegistryTypes', Exclusion', NEW t \in Tasks, FinishRemoval(t)
    PROVE  RegistryInv'
<1> DEFINE m == name[t]
<1>0. RegistryTypes /\ m \in Names /\ pc[t] = "removing"
  BY DEF RegistryInv, RegistryTypes, FinishRemoval
<1>1. /\ UNCHANGED <<epoch, handles, made, known, halfway, name, mine, revived>>
      /\ dir'[m] = "none" /\ \A n \in Names : n # m => dir'[n] = dir[n]
      /\ pc'[t] = "removed" /\ \A u \in Tasks : u # t => pc'[u] = pc[u]
  BY <1>0 DEF FinishRemoval, Goto, Keep, RegistryTypes, ghosts
<1>2. \A n : Incarnation(n)' = Incarnation(n) /\ Disturbed(n)' = Disturbed(n)
  BY <1>1 DEF Incarnation, Disturbed
<1>3. InUse' \subseteq InUse
  BY <1>0, <1>1, InUseMove DEF UsePlaces
<1>4. /\ \A u \in Tasks : u # t => pc'[u] \notin WritePlaces /\ pc'[u] \notin ReadPlaces
      /\ known[m] = "none"
  BY <1>0, <1>1, Alone DEF RegistryInv, WritePlaces, Deleting
<1>5. Fresh' /\ Creating' /\ Deleting'
  BY <1>1, <1>4 DEF Fresh, Creating, Deleting, WritePlaces, ReadPlaces
<1>6. NotAhead' /\ OneHandle'
  BY <1>1, <1>3 DEF RegistryInv, NotAhead, OneHandle
<1>7. UsedIsCached'
  BY <1>1, <1>2, <1>3 DEF RegistryInv, UsedIsCached, Unopenable
<1>8. CacheIsCurrent'
  BY <1>0, <1>1, <1>2 DEF RegistryInv, CacheIsCurrent
<1>9. AckedIsOpen' /\ DeletedIsGone'
  BY <1>1, <1>2, <1>4 DEF RegistryInv, AckedIsOpen, DeletedIsGone
<1> QED BY <1>5, <1>6, <1>7, <1>8, <1>9 DEF RegistryInv

\* The removal fails, or its client leaves: the name is disturbed from here on.
LEMMA InvCut ==
    ASSUME RegistryInv, RegistryTypes', Exclusion', NEW t \in Tasks, Gone(t),
           pc[t] \in {"removing", "removed"}, halfway' = halfway \cup {name[t]},
           UNCHANGED <<epoch, handles, made, known, revived>>,
           \A n \in Names : n # name[t] => dir'[n] = dir[n],
           dir[name[t]] \in {"none", "skeleton"} => dir'[name[t]] \in {"none", "skeleton"}
    PROVE  RegistryInv'
<1> DEFINE m == name[t]
<1>0. RegistryTypes /\ m \in Names
  BY DEF RegistryInv, RegistryTypes
<1>1. /\ pc'[t] = "idle"
      /\ \A u \in Tasks : u # t => pc'[u] = pc[u] /\ name'[u] = name[u] /\ mine'[u] = mine[u]
  BY <1>0 DEF Gone, RegistryTypes
<1>2. /\ \A n : Incarnation(n)' = Incarnation(n)
      /\ \A n \in Names : (Disturbed(n)' <=> Disturbed(n) \/ n = m)
  BY DEF Incarnation, Disturbed
<1>3. InUse' \subseteq InUse
  BY <1>0, <1>1, InUseMove DEF UsePlaces
<1>4. /\ \A u \in Tasks : pc'[u] \notin WritePlaces /\ pc'[u] \notin ReadPlaces
      /\ \A u \in Tasks : u # t => pc[u] \notin WritePlaces
      /\ known[m] = "none"
  BY <1>0, <1>1, Alone DEF RegistryInv, WritePlaces, ReadPlaces, Deleting
<1> HIDE DEF m
<1>5. Fresh' /\ Creating' /\ Deleting'
  BY <1>4 DEF Fresh, Creating, Deleting, WritePlaces, ReadPlaces
<1>6. NotAhead' /\ OneHandle'
  BY <1>3 DEF RegistryInv, NotAhead, OneHandle
<1>7. UsedIsCached'
  <2> SUFFICES ASSUME NEW h \in InUse', NEW n \in Names, made[h] = Incarnation(n)
               PROVE  handles[n] = h \/ Unopenable(n)' \/ Incarnation(n) \in revived
    BY <1>2 DEF UsedIsCached
  <2>1. handles[n] = h \/ Unopenable(n) \/ Incarnation(n) \in revived
    BY <1>3 DEF RegistryInv, UsedIsCached
  <2>2. dir[n] \in {"none", "skeleton"} => dir'[n] \in {"none", "skeleton"}
    BY DEF m
  <2> QED BY <1>4, <2>1, <2>2 DEF Unopenable, ReadPlaces
<1>8. CacheIsCurrent'
  <2> SUFFICES ASSUME NEW n \in Names, handles[n] # NoHandle, n # m
               PROVE  (made[handles[n]] = Incarnation(n) /\ dir'[n] = "open") \/ Disturbed(n)'
    BY <1>2 DEF CacheIsCurrent
  <2>1. ~ \E u \in Tasks : pc[u] = "removed" /\ name[u] = n
    BY <1>4 DEF WritePlaces, m
  <2> QED BY <1>2, <2>1 DEF RegistryInv, CacheIsCurrent, m
<1>9. AckedIsOpen' /\ DeletedIsGone'
  BY <1>2, <1>4 DEF RegistryInv, AckedIsOpen, DeletedIsGone, m
<1> QED BY <1>5, <1>6, <1>7, <1>8, <1>9 DEF RegistryInv

\* The handle of the removed index leaves the map.
LEMMA InvForget ==
    ASSUME RegistryInv, RegistryTypes', Exclusion', NEW t \in Tasks, Forget(t)
    PROVE  RegistryInv'
<1> DEFINE m == name[t]
<1>0. RegistryTypes /\ m \in Names /\ pc[t] = "removed"
  BY DEF RegistryInv, RegistryTypes, Forget, WritePlaces
<1>1. /\ UNCHANGED <<dir, epoch, made, revived>>
      /\ handles'[m] = NoHandle /\ known'[m] = "deleted" /\ halfway' = halfway \ {m}
      /\ \A n \in Names : n # m => handles'[n] = handles[n] /\ known'[n] = known[n]
      /\ pc'[t] = "idle"
      /\ \A u \in Tasks : u # t => pc'[u] = pc[u] /\ name'[u] = name[u] /\ mine'[u] = mine[u]
  BY <1>0 DEF Forget, Gone, RegistryTypes, disk
<1>2. /\ \A n : Incarnation(n)' = Incarnation(n)
      /\ \A n \in Names : n # m => (Disturbed(n)' <=> Disturbed(n))
  BY <1>1 DEF Incarnation, Disturbed
<1>3. InUse' \subseteq InUse
  BY <1>0, <1>1, InUseIs DEF UsePlaces
<1>4. /\ \A u \in Tasks : pc'[u] \notin WritePlaces /\ pc'[u] \notin ReadPlaces
      /\ \A u \in Tasks : u # t => pc[u] \notin WritePlaces
      /\ dir[m] \in {"none", "skeleton"} \/ Incarnation(m) \in revived
  BY <1>0, <1>1, Alone DEF RegistryInv, WritePlaces, ReadPlaces, Deleting
<1> HIDE DEF m
<1>5. Fresh' /\ Creating' /\ Deleting'
  BY <1>4 DEF Fresh, Creating, Deleting, WritePlaces, ReadPlaces
<1>6. NotAhead' /\ OneHandle'
  BY <1>1, <1>3 DEF RegistryInv, NotAhead, OneHandle
<1>7. UsedIsCached'
  <2> SUFFICES ASSUME NEW h \in InUse', NEW n \in Names, made[h] = Incarnation(n)
               PROVE  handles'[n] = h \/ Unopenable(n)' \/ Incarnation(n)' \in revived'
    BY <1>1, <1>2 DEF UsedIsCached
  <2>1. handles[n] = h \/ Unopenable(n) \/ Incarnation(n) \in revived
    BY <1>3 DEF RegistryInv, UsedIsCached
  <2>2. CASE n = m
    BY <1>1, <1>2, <1>4, <2>2 DEF Unopenable, ReadPlaces
  <2>3. CASE n # m
    BY <1>1, <1>2, <1>4, <2>1, <2>3 DEF Unopenable, ReadPlaces
  <2> QED BY <2>2, <2>3
<1>8. CacheIsCurrent'
  <2> SUFFICES ASSUME NEW n \in Names, handles[n] # NoHandle, n # m
               PROVE  (made[handles[n]] = Incarnation(n) /\ dir[n] = "open") \/ Disturbed(n)'
    BY <1>1, <1>2 DEF CacheIsCurrent
  <2>1. ~ \E u \in Tasks : pc[u] = "removed" /\ name[u] = n
    BY <1>4 DEF WritePlaces, m
  <2> QED BY <1>2, <2>1 DEF RegistryInv, CacheIsCurrent
<1>9. AckedIsOpen' /\ DeletedIsGone'
  BY <1>1, <1>2, <1>4 DEF RegistryInv, AckedIsOpen, DeletedIsGone
<1> QED BY <1>5, <1>6, <1>7, <1>8, <1>9 DEF RegistryInv

-----------------------------------------------------------------------------
\* Dropped requests, removals that outlive them, and restarts.

\* A request that is dropped leaves at most a removal that outlives it,
LEMMA InvDrop ==
    ASSUME RegistryInv, RegistryTypes', Exclusion', NEW t \in Tasks, Drop(t)
    PROVE  RegistryInv'
<1>0. RegistryTypes
  BY DEF RegistryInv
<1>1. /\ UNCHANGED <<epoch, handles, made, known, revived>> /\ Gone(t)
      /\ pc'[t] = "idle"
      /\ \A u \in Tasks : u # t => pc'[u] = pc[u] /\ name'[u] = name[u] /\ mine'[u] = mine[u]
  BY <1>0 DEF Drop, Gone, RegistryTypes
<1>2. CASE pc[t] \in {"removing", "removed"}
  <2>1. dir' = dir /\ halfway' = halfway \cup {name[t]}
    BY <1>2 DEF Drop
  <2> QED BY <1>1, <1>2, <2>1, InvCut
<1>3. CASE pc[t] \notin {"removing", "removed"} /\ dir' = dir
  BY <1>1, <1>3, QuietGone DEF Drop
<1>4. CASE pc[t] = "meta" /\ dir' # dir
  <2>1. dir[name[t]] # "none" /\ dir' = [dir EXCEPT ![name[t]] = "created"] /\ halfway' = halfway
    BY <1>4 DEF Drop
  <2> QED BY <1>1, <1>4, <2>1, InvMetadata
<1> QED BY <1>2, <1>3, <1>4 DEF Drop

\* which takes no handle,
LEMMA InvDetached ==
    ASSUME RegistryInv, RegistryTypes', Exclusion', NEW m \in Names, DetachedRemoval(m)
    PROVE  RegistryInv'
<1>0. RegistryTypes
  BY DEF RegistryInv
<1>1. /\ UNCHANGED <<epoch, handles, made, known, pc, name, mine, revived>>
      /\ dir'[m] = "none" /\ \A n \in Names : n # m => dir'[n] = dir[n]
      /\ halfway' = IF dir[m] = "none" THEN halfway ELSE halfway \cup {m}
  BY <1>0 DEF DetachedRemoval, RegistryTypes
<1>2. /\ \A n : Incarnation(n)' = Incarnation(n)
      /\ \A n \in Names : Disturbed(n) => Disturbed(n)'
      /\ dir[m] # "none" => Disturbed(m)'
      /\ InUse' = InUse
  BY <1>1 DEF Incarnation, Disturbed, InUse
<1>3. \A u \in Tasks : pc[u] \in WritePlaces \/ pc[u] = "insert" => name[u] \in Names
  BY <1>0 DEF RegistryTypes, WritePlaces
<1>4. Fresh'
  BY <1>1, <1>2, <1>3 DEF RegistryInv, Fresh, WritePlaces
<1>5. Creating'
  BY <1>1, <1>2 DEF RegistryInv, Creating
<1>6. Deleting'
  BY <1>1, <1>3, <1>2 DEF RegistryInv, Deleting, WritePlaces
<1>7. NotAhead' /\ OneHandle'
  BY <1>1, <1>2 DEF RegistryInv, NotAhead, OneHandle
<1>8. UsedIsCached'
  BY <1>1, <1>2 DEF RegistryInv, UsedIsCached, Unopenable
<1>9. CacheIsCurrent'
  BY <1>1, <1>2 DEF RegistryInv, CacheIsCurrent
<1>10. AckedIsOpen' /\ DeletedIsGone'
  BY <1>1, <1>2 DEF RegistryInv, AckedIsOpen, DeletedIsGone
<1> QED BY <1>4, <1>5, <1>6, <1>7, <1>8, <1>9, <1>10 DEF RegistryInv

\* and a restart takes them all.
LEMMA InvRestart ==
    ASSUME RegistryInv, RegistryTypes', Exclusion', Restart
    PROVE  RegistryInv'
<1> DEFINE cut == detached \cup {name[t] : t \in {u \in Tasks : pc[u] = "removing"}}
<1>1. PICK rest \in [cut -> DirStates] :
          /\ dir' = [n \in Names |-> IF n \in cut THEN rest[n] ELSE dir[n]]
          /\ known' = [n \in Names |-> IF n \in cut \cup halfway THEN "none" ELSE known[n]]
  BY DEF Restart
<1> HIDE DEF cut
<1>2. ASSUME NEW n \in Names, known'[n] # "none"
      PROVE  dir'[n] = dir[n] /\ known'[n] = known[n] /\ ~Disturbed(n)
  BY <1>1, <1>2 DEF Disturbed
<1>3. /\ \A n \in Names : handles'[n] = NoHandle
      /\ \A t \in Tasks : pc'[t] = "idle"
  BY DEF Restart
<1>4. \A h : h \notin InUse'
  BY <1>3, InUseIs DEF UsePlaces
<1>5. Fresh' /\ Creating' /\ Deleting'
  BY <1>3 DEF Fresh, Creating, Deleting
<1>6. NotAhead' /\ OneHandle' /\ UsedIsCached'
  BY <1>4 DEF NotAhead, OneHandle, UsedIsCached
<1>7. CacheIsCurrent'
  BY <1>3 DEF CacheIsCurrent
<1>8. AckedIsOpen' /\ DeletedIsGone'
  <2>1. UNCHANGED <<epoch, revived>>
    BY DEF Restart
  <2> QED BY <1>2, <1>3, <2>1 DEF RegistryInv, AckedIsOpen, DeletedIsGone, Incarnation
<1> QED BY <1>5, <1>6, <1>7, <1>8 DEF RegistryInv

-----------------------------------------------------------------------------
\* The theorems.

\* In the first state nothing is there.
LEMMA InvInit == Init => RegistryInv
<1> SUFFICES ASSUME Init PROVE RegistryInv
  OBVIOUS
<1>1. RegistryTypes
  BY TypesInit
<1>2. InUse = {}
  BY DEF Init, InUse
<1> QED BY <1>1, <1>2
        DEF Init, RegistryInv, Exclusion, HoldsWrite, WritePlaces, Fresh, Creating, Deleting, NotAhead,
            UsedIsCached, OneHandle, CacheIsCurrent, AckedIsOpen, DeletedIsGone

\* Every step keeps the invariant.
LEMMA InvStep ==
    ASSUME RegistryInv, [Next]_vars
    PROVE  RegistryInv'
<1>0. RegistryTypes' /\ Exclusion'
  BY TypesStep, ExclusionStep DEF RegistryInv
<1>1. ASSUME NEW t \in Tasks, Lookup(t) PROVE RegistryInv'
  <2>1. CASE Open(t)
    BY <1>0, <2>1, InvOpened DEF Open
  <2> QED BY <1>0, <1>1, <2>1, InvQuiet, InvInsert DEF Lookup
<1>2. ASSUME NEW t \in Tasks, Use(t) PROVE RegistryInv'
  BY <1>0, <1>2, InvQuiet, InvMakesDirectory, InvPersistsMappings DEF Use
<1>3. ASSUME NEW t \in Tasks, Create(t) PROVE RegistryInv'
  <2>1. CASE Reopen(t)
    BY <1>0, <2>1, InvOpened DEF Reopen
  <2>2. CASE WriteMetadata(t)
    <3>1. pc'[t] = "reopen" /\ \A u \in Tasks : u # t => pc'[u] = pc[u]
      BY <2>2 DEF WriteMetadata, Goto, RegistryInv, RegistryTypes
    <3> QED BY <1>0, <2>2, <3>1, InvMetadata DEF WriteMetadata, Keep, ghosts
  <2> QED BY <1>0, <1>3, <2>1, <2>2, InvQuiet, InvMakeDirs, InvPublish DEF Create
<1>4. ASSUME NEW t \in Tasks, Delete(t) PROVE RegistryInv'
  <2>1. CASE RemovalFails(t)
    <3>1. name[t] \in Names
      BY <2>1 DEF RemovalFails, RegistryInv, RegistryTypes
    <3>2. PICK rest \in Remains(name[t]) : dir' = [dir EXCEPT ![name[t]] = rest]
      BY <2>1 DEF RemovalFails
    <3>3. /\ \A n \in Names : n # name[t] => dir'[n] = dir[n]
          /\ dir[name[t]] \in {"none", "skeleton"} => dir'[name[t]] \in {"none", "skeleton"}
      BY <3>1, <3>2 DEF RegistryInv, RegistryTypes, Remains
    <3> QED BY <1>0, <2>1, <3>3, InvCut DEF RemovalFails
  <2> QED BY <1>0, <1>4, <2>1, InvQuiet, InvStartRemoval, InvFinishRemoval, InvForget DEF Delete
<1>5. CASE UNCHANGED vars
  BY <1>5 DEF vars, RegistryInv, RegistryTypes, Exclusion, HoldsWrite, HoldsRead, Fresh, Creating,
              Deleting, NotAhead, UsedIsCached, Unopenable, OneHandle, CacheIsCurrent, AckedIsOpen,
              DeletedIsGone, InUse, Incarnation, Disturbed, Handle
<1> QED BY <1>0, <1>1, <1>2, <1>3, <1>4, <1>5, InvStart, InvDrop, InvDetached, InvRestart
        DEF Next, Step

\* The invariant holds in every reachable state.
LEMMA Invariance == Spec => []RegistryInv
BY InvInit, InvStep, PTL DEF Spec

\* Two tasks never hold the registry's lock in ways that exclude each other.
THEOREM LockExcludes == Spec => []Exclusion
<1>1. RegistryInv => Exclusion
  BY DEF RegistryInv
<1> QED BY <1>1, Invariance, PTL

\* All work on one incarnation of a directory goes through one handle, but for the
\* incarnations that tasks with a deleted index's handle brought back.
THEOREM OneHandlePerDirectory == Spec => []OneHandle
<1>1. RegistryInv => OneHandle
  BY DEF RegistryInv
<1> QED BY <1>1, Invariance, PTL

\* The handle that is handed out for a name is of the directory that is there.
THEOREM MapIsCurrent == Spec => []CacheIsCurrent
<1>1. RegistryInv => CacheIsCurrent
  BY DEF RegistryInv
<1> QED BY <1>1, Invariance, PTL

\* An index whose creation was acknowledged is complete on disk, also after a restart.
THEOREM CreatedIsOpen == Spec => []AckedIsOpen
<1>1. RegistryInv => AckedIsOpen
  BY DEF RegistryInv
<1> QED BY <1>1, Invariance, PTL

\* A deleted index stays out of reach until it is created again, but for the
\* incarnations that tasks with its old handle brought back.
THEOREM DeletedStaysGone == Spec => []DeletedIsGone
<1>1. RegistryInv => DeletedIsGone
  BY DEF RegistryInv
<1> QED BY <1>1, Invariance, PTL

=============================================================================
