------------------------ MODULE DocumentVaultProofs ------------------------
(***************************************************************************)
(* Theorems about DocumentVault, for any documents, requests, instants and *)
(* number of failures.                                                     *)
(***************************************************************************)
EXTENDS DocumentVault, TLAPS

\* Someone is going to remove the object, or to erase the row, of d.
Uploading(d) == \E r \in Requests : req[r].at \in {"insert", "undo"} /\ req[r].doc = d
Erasing(d) == \E r \in Requests : req[r].at = "erase" /\ req[r].doc = d

Alone(r) == \A s \in Requests \ {r} : req[s].doc # req[r].doc

\* Where a request is says what its document is like.
PlacesInv ==
    \A r \in Requests :
        /\ req[r].at \in {"put", "insert"} => row[req[r].doc] = "none"
        /\ req[r].at \in {"refresh", "remove", "erase", "patch"} => row[req[r].doc] # "none"
        /\ req[r].at = "put" => req[r].doc \notin objects
        /\ req[r].at = "insert" => req[r].doc \in objects
        /\ req[r].at = "erase" => req[r].doc \notin objects
        /\ req[r].at = "undo" => row[req[r].doc] # "live" \/ req[r].doc \in tainted

\* Nobody else knows a document that has no row yet.
AloneInv == \A r \in Requests : req[r].doc \in Docs /\ row[req[r].doc] = "none" => Alone(r)

\* Where the stores disagree, a request is there to set it right.
StoresInv ==
    \A d \in Docs :
        /\ row[d] = "none" /\ d \in objects => d \in tainted \/ Uploading(d)
        /\ row[d] = "live" /\ d \notin objects => d \in tainted \/ Erasing(d)
        /\ row[d] = "gone" => d \notin objects

VaultInv == PlacesInv /\ AloneInv /\ StoresInv
-----------------------------------------------------------------------------
(* Types.                                                                  *)

LEMMA NextCases ==
    ASSUME Next
    PROVE  \/ \E r \in Requests, d \in Docs : Delete(r, d)
           \/ \E r \in Requests, d \in Docs, e \in Expiries : Upload(r, d, e) \/ Patch(r, d, e)
           \/ \E r \in Requests : \/ PutObject(r) \/ PutFails(r) \/ InsertRow(r)
                                  \/ InsertFails(r) \/ Refresh(r) \/ RefreshFails(r)
                                  \/ RemoveUploaded(r) \/ RemoveObject(r) \/ RemoveFails(r)
                                  \/ EraseRow(r) \/ PatchRow(r) \/ Dies(r)
           \/ Tick
BY DEF Next

\* A request that is under way has a document.
LEMMA BusyRequest ==
    ASSUME TypeOK, NEW r \in Requests, req[r].at # "idle"
    PROVE  /\ req[r] \in [at : Places \ {"idle"}, doc : Docs, exp : Expiries]
           /\ req[r].doc \in Docs /\ req[r].exp \in Expiries
<1>1. req[r] \in RequestStates
  BY DEF TypeOK
<1>2. Idle.at = "idle"
  BY DEF Idle
<1> QED
  BY <1>1, <1>2 DEF RequestStates

LEMMA GotoFacts ==
    ASSUME TypeOK, NEW r \in Requests, req[r].at # "idle", NEW place \in Places \ {"idle"},
           Goto(r, place)
    PROVE  /\ req' \in [Requests -> RequestStates]
           /\ req'[r].at = place /\ req'[r].doc = req[r].doc
           /\ \A s \in Requests : req'[s].doc = req[s].doc
           /\ \A s \in Requests \ {r} : req'[s] = req[s]
<1> DEFINE new == [at |-> place, doc |-> req[r].doc, exp |-> req[r].exp]
<1>1. req' = [req EXCEPT ![r] = new]
  <2>1. req[r] \in [at : Places \ {"idle"}, doc : Docs, exp : Expiries]
    BY BusyRequest
  <2>2. [req[r] EXCEPT !.at = place] = new
    BY <2>1
  <2>3. req' = [req EXCEPT ![r] = [req[r] EXCEPT !.at = place]]
    BY DEF Goto
  <2> QED
    BY <2>2, <2>3
<1>2. new \in RequestStates
  BY BusyRequest DEF RequestStates
<1>3. new.at = place /\ new.doc = req[r].doc
  OBVIOUS
<1> HIDE DEF new
<1> QED
  BY <1>1, <1>2, <1>3 DEF TypeOK

LEMMA EndFacts ==
    ASSUME TypeOK, NEW r \in Requests, End(r)
    PROVE  /\ req' \in [Requests -> RequestStates]
           /\ req'[r].at = "idle" /\ req'[r].doc = NoDoc
           /\ \A s \in Requests \ {r} : req'[s] = req[s]
<1>1. Idle \in RequestStates
  BY DEF RequestStates
<1>2. Idle.at = "idle" /\ Idle.doc = NoDoc
  BY DEF Idle
<1> QED
  BY <1>1, <1>2 DEF TypeOK, End

LEMMA BeginFacts ==
    ASSUME TypeOK, NEW r \in Requests, NEW place \in Places \ {"idle"}, NEW d \in Docs,
           NEW e \in Expiries, Begin(r, place, d, e)
    PROVE  /\ req' \in [Requests -> RequestStates]
           /\ req[r].at = "idle" /\ req[r].doc = NoDoc
           /\ req'[r].at = place /\ req'[r].doc = d
           /\ \A s \in Requests \ {r} : req'[s] = req[s]
<1> DEFINE new == [at |-> place, doc |-> d, exp |-> e]
<1>1. req' = [req EXCEPT ![r] = new]
  BY DEF Begin
<1>2. new \in RequestStates
  BY DEF RequestStates
<1>3. new.at = place /\ new.doc = d
  OBVIOUS
<1>4. Idle.at = "idle" /\ Idle.doc = NoDoc /\ req[r] = Idle
  BY DEF Idle, Begin
<1> HIDE DEF new
<1> QED
  BY <1>1, <1>2, <1>3, <1>4 DEF TypeOK

LEMMA TaintType ==
    ASSUME TypeOK, NEW caught, NEW d \in Docs, Taint(caught, d)
    PROVE  tainted' \in SUBSET Docs /\ tainted \subseteq tainted' /\ (caught => d \in tainted')
BY DEF TypeOK, Taint

LEMMA FaultType == ASSUME TypeOK, Fault PROVE faults' \in Nat
BY DEF TypeOK, Fault

LEMMA PlaceNames ==
    {"put", "insert", "refresh", "undo", "remove", "erase", "patch"} \subseteq Places \ {"idle"}
BY DEF Places

\* The variables keep their types: a request is idle or busy with one document.
THEOREM TypeCorrect == Spec => []TypeOK
<1>1. Init => TypeOK
  <2> SUFFICES ASSUME Init PROVE TypeOK
    OBVIOUS
  <2>1. req \in [Requests -> RequestStates]
    BY DEF Init, RequestStates
  <2>2. expires \in [Docs -> Expiries]
    BY DEF Init, Expiries
  <2> QED
    BY <2>1, <2>2 DEF Init, TypeOK
<1>2. TypeOK /\ [Next]_vars => TypeOK'
  <2> SUFFICES ASSUME TypeOK, [Next]_vars PROVE TypeOK'
    OBVIOUS
  <2>1. CASE UNCHANGED vars
    BY <2>1 DEF TypeOK, vars
  <2>2. ASSUME NEW r \in Requests, NEW d \in Docs, Delete(r, d) PROVE TypeOK'
    <3>1. Never \in Expiries
      BY DEF Expiries
    <3>2. req' \in [Requests -> RequestStates]
      BY <2>2, <3>1, BeginFacts, PlaceNames DEF Delete
    <3> QED
      BY <2>2, <3>2 DEF TypeOK, Delete
  <2>3. ASSUME NEW r \in Requests, NEW d \in Docs, NEW e \in Expiries,
               Upload(r, d, e) \/ Patch(r, d, e)
        PROVE  TypeOK'
    <3>1. req' \in [Requests -> RequestStates]
      BY <2>3, BeginFacts, PlaceNames DEF Upload, Patch
    <3> QED
      BY <2>3, <3>1 DEF TypeOK, Upload, Patch
  <2>4. ASSUME NEW r \in Requests, PutObject(r) \/ RemoveObject(r) PROVE TypeOK'
    <3>1. req' \in [Requests -> RequestStates]
      BY <2>4, GotoFacts, PlaceNames DEF PutObject, RemoveObject, Busy
    <3>2. req[r].doc \in Docs
      BY <2>4, BusyRequest DEF PutObject, RemoveObject, Busy
    <3> QED
      BY <2>4, <3>1, <3>2 DEF TypeOK, PutObject, RemoveObject
  <2>5. ASSUME NEW r \in Requests, PutFails(r) \/ RemoveFails(r) PROVE TypeOK'
    <3>1. req' \in [Requests -> RequestStates]
      BY <2>5, EndFacts DEF PutFails, RemoveFails
    <3>2. req[r].doc \in Docs
      BY <2>5, BusyRequest DEF PutFails, RemoveFails, Busy
    <3>3. tainted' \in SUBSET Docs
      BY <2>5, <3>2, TaintType DEF PutFails, RemoveFails
    <3>4. objects' \in SUBSET Docs
      BY <2>5, <3>2 DEF TypeOK, PutFails, RemoveFails
    <3>5. faults' \in Nat
      BY <2>5, FaultType DEF PutFails, RemoveFails
    <3> QED
      BY <2>5, <3>1, <3>3, <3>4, <3>5 DEF TypeOK, PutFails, RemoveFails
  <2>6. ASSUME NEW r \in Requests, InsertRow(r) PROVE TypeOK'
    <3>1. req' \in [Requests -> RequestStates]
      BY <2>6, GotoFacts, PlaceNames DEF InsertRow, Busy
    <3>2. req[r].doc \in Docs /\ req[r].exp \in Expiries
      BY <2>6, BusyRequest DEF InsertRow, Busy
    <3> QED
      BY <2>6, <3>1, <3>2 DEF TypeOK, InsertRow
  <2>7. ASSUME NEW r \in Requests, InsertFails(r) \/ RefreshFails(r) PROVE TypeOK'
    <3>1. req' \in [Requests -> RequestStates]
      BY <2>7, GotoFacts, PlaceNames DEF InsertFails, RefreshFails, Busy
    <3>2. req[r].doc \in Docs
      BY <2>7, BusyRequest DEF InsertFails, RefreshFails, Busy
    <3>3. tainted' \in SUBSET Docs
      BY <2>7, <3>2, TaintType DEF InsertFails, RefreshFails, TypeOK
    <3>4. faults' \in Nat
      BY <2>7, FaultType DEF InsertFails, RefreshFails
    <3> QED
      BY <2>7, <3>1, <3>3, <3>4 DEF TypeOK, InsertFails, RefreshFails
  <2>8. ASSUME NEW r \in Requests, Refresh(r) PROVE TypeOK'
    <3>1. req' \in [Requests -> RequestStates]
      BY <2>8, GotoFacts, EndFacts, PlaceNames DEF Refresh, Busy
    <3> QED
      BY <2>8, <3>1 DEF TypeOK, Refresh
  <2>9. ASSUME NEW r \in Requests, RemoveUploaded(r) \/ EraseRow(r) PROVE TypeOK'
    <3>1. req' \in [Requests -> RequestStates]
      BY <2>9, EndFacts DEF RemoveUploaded, EraseRow
    <3> QED
      BY <2>9, <3>1 DEF TypeOK, RemoveUploaded, EraseRow
  <2>10. ASSUME NEW r \in Requests, PatchRow(r) PROVE TypeOK'
    <3>1. req' \in [Requests -> RequestStates]
      BY <2>10, EndFacts DEF PatchRow
    <3>2. req[r].exp \in Expiries
      BY <2>10, BusyRequest DEF PatchRow, Busy
    <3>3. expires' \in [Docs -> Expiries]
      BY <2>10, <3>2 DEF TypeOK, PatchRow
    <3> QED
      BY <2>10, <3>1, <3>3 DEF TypeOK, PatchRow
  <2>11. ASSUME NEW r \in Requests, Dies(r) PROVE TypeOK'
    <3>1. req' \in [Requests -> RequestStates]
      BY <2>11, EndFacts DEF Dies
    <3>2. req[r].doc \in Docs
      BY <2>11, BusyRequest DEF Dies
    <3>3. tainted' \in SUBSET Docs
      BY <2>11, <3>2, TaintType DEF Dies
    <3>4. faults' \in Nat
      BY <2>11, FaultType DEF Dies
    <3> QED
      BY <2>11, <3>1, <3>3, <3>4 DEF TypeOK, Dies
  <2>12. CASE Tick
    BY <2>12 DEF TypeOK, Tick
  <2> QED
    BY NextCases, <2>1, <2>2, <2>3, <2>4, <2>5, <2>6, <2>7, <2>8, <2>9, <2>10, <2>11, <2>12
<1> QED
  BY <1>1, <1>2, PTL DEF Spec
-----------------------------------------------------------------------------
(* The invariant.                                                          *)

\* Only request r changes.
Elsewhere(r) == \A s \in Requests \ {r} : req'[s] = req[s]

LEMMA IdleDoc ==
    ASSUME TypeOK, NEW r \in Requests
    PROVE  req[r].at = "idle" <=> req[r].doc \notin Docs
<1>1. CASE req[r] = Idle
  BY <1>1, DocAssumption DEF Idle
<1>2. CASE req[r] \in [at : Places \ {"idle"}, doc : Docs, exp : Expiries]
  BY <1>2
<1> QED
  BY <1>1, <1>2 DEF TypeOK, RequestStates

LEMMA UploadingKept ==
    ASSUME NEW r \in Requests, Elsewhere(r), NEW d,
           req[r].at \notin {"insert", "undo"} \/ req[r].doc # d, Uploading(d)
    PROVE  Uploading(d)'
BY DEF Uploading, Elsewhere

LEMMA ErasingKept ==
    ASSUME NEW r \in Requests, Elsewhere(r), NEW d,
           req[r].at # "erase" \/ req[r].doc # d, Erasing(d)
    PROVE  Erasing(d)'
BY DEF Erasing, Elsewhere

\* The steps of a request that only reads, only starts or only fails.
LEMMA BeginKeeps ==
    ASSUME TypeOK, VaultInv, NEW r \in Requests, NEW d \in Docs, NEW place \in {"remove", "patch"},
           NEW e \in Expiries, row[d] = "live", Begin(r, place, d, e),
           UNCHANGED <<objects, row, tainted>>
    PROVE  VaultInv'
<1>1. /\ req[r].at = "idle" /\ req'[r].at = place /\ req'[r].doc = d /\ Elsewhere(r)
  BY BeginFacts, PlaceNames DEF Elsewhere
<1>2. PlacesInv'
  BY <1>1 DEF VaultInv, PlacesInv, Elsewhere
<1>3. AloneInv'
  BY <1>1 DEF VaultInv, AloneInv, Alone, Elsewhere
<1>4. StoresInv'
  BY <1>1, UploadingKept, ErasingKept DEF VaultInv, StoresInv
<1> QED
  BY <1>2, <1>3, <1>4 DEF VaultInv

LEMMA UploadKeeps ==
    ASSUME TypeOK, VaultInv, NEW r \in Requests, NEW d \in Docs, NEW e \in Expiries,
           Upload(r, d, e)
    PROVE  VaultInv'
<1>1. /\ req[r].at = "idle" /\ req'[r].at = "put" /\ req'[r].doc = d /\ Elsewhere(r)
  BY BeginFacts, PlaceNames DEF Elsewhere, Upload
<1>2. UNCHANGED <<objects, row, tainted>> /\ row[d] = "none" /\ d \notin objects
  BY DEF Upload
<1>3. \A s \in Requests : req[s].doc # d
  BY DEF Upload, Quiet
<1>4. PlacesInv'
  BY <1>1, <1>2 DEF VaultInv, PlacesInv, Elsewhere
<1>5. AloneInv'
  BY <1>1, <1>2, <1>3 DEF VaultInv, AloneInv, Alone, Elsewhere
<1>6. StoresInv'
  BY <1>1, <1>2, UploadingKept, ErasingKept DEF VaultInv, StoresInv
<1> QED
  BY <1>4, <1>5, <1>6 DEF VaultInv

LEMMA PutObjectKeeps ==
    ASSUME TypeOK, VaultInv, NEW r \in Requests, PutObject(r)
    PROVE  VaultInv'
<1>1. /\ req[r].at = "put" /\ req'[r].at = "insert" /\ req'[r].doc = req[r].doc /\ Elsewhere(r)
  BY GotoFacts, PlaceNames DEF PutObject, Busy, Elsewhere
<1>2. /\ UNCHANGED <<row, tainted>> /\ objects' = objects \cup {req[r].doc}
      /\ req[r].doc \in Docs /\ row[req[r].doc] = "none"
  BY <1>1, BusyRequest DEF PutObject, VaultInv, PlacesInv
<1>3. \A s \in Requests \ {r} : req[s].doc # req[r].doc
  BY <1>2 DEF VaultInv, AloneInv, Alone
<1>4. PlacesInv'
  BY <1>1, <1>2, <1>3 DEF VaultInv, PlacesInv, Elsewhere
<1>5. AloneInv'
  BY <1>1, <1>2, <1>3 DEF VaultInv, AloneInv, Alone, Elsewhere
<1>6. Uploading(req[r].doc)'
  BY <1>1 DEF Uploading
<1>7. StoresInv'
  BY <1>1, <1>2, <1>6, UploadingKept, ErasingKept DEF VaultInv, StoresInv
<1> QED
  BY <1>4, <1>5, <1>7 DEF VaultInv

\* A request ends; it may have stored or removed its object.
LEMMA EndKeeps ==
    ASSUME TypeOK, VaultInv, NEW r \in Requests, End(r), req[r].at # "idle", UNCHANGED row,
           NEW x \in Docs, req[r].doc = x,
           tainted \subseteq tainted', tainted' \subseteq tainted \cup {x},
           \A d \in Docs \ {x} : d \in objects' <=> d \in objects,
           \A s \in Requests \ {r} : req[s].doc = x /\ req[s].at \in {"put", "erase"}
                                       => x \notin objects',
           row[x] = "none" => x \notin objects' \/ x \in tainted',
           row[x] = "live" /\ x \notin objects' => x \in tainted' \/ Erasing(x)',
           row[x] = "gone" => x \notin objects'
    PROVE  VaultInv'
<1>1. req'[r].at = "idle" /\ req'[r].doc = NoDoc /\ Elsewhere(r)
  BY EndFacts DEF Elsewhere
<1>3. PlacesInv'
  <2> SUFFICES ASSUME NEW s \in Requests \ {r}
               PROVE  /\ req[s].at \in {"put", "insert"} => row[req[s].doc] = "none"
                      /\ req[s].at \in {"refresh", "remove", "erase", "patch"}
                            => row[req[s].doc] # "none"
                      /\ req[s].at = "put" => req[s].doc \notin objects'
                      /\ req[s].at = "insert" => req[s].doc \in objects'
                      /\ req[s].at = "erase" => req[s].doc \notin objects'
                      /\ req[s].at = "undo" => row[req[s].doc] # "live" \/ req[s].doc \in tainted'
    BY <1>1 DEF PlacesInv, Elsewhere
  <2>1. req[s].at # "idle" => req[s].doc \in Docs
    BY BusyRequest
  <2>2. req[s].at \in {"put", "insert"} => req[s].doc # x
    BY <2>1 DEF VaultInv, PlacesInv, AloneInv, Alone
  <2> QED
    BY <2>1, <2>2 DEF VaultInv, PlacesInv
<1>4. AloneInv'
  <2> SUFFICES ASSUME NEW u \in Requests, req'[u].doc \in Docs, row'[req'[u].doc] = "none",
                      NEW s \in Requests \ {u}
               PROVE  req'[s].doc # req'[u].doc
    BY DEF AloneInv, Alone
  <2>1. u # r /\ req'[u] = req[u]
    BY <1>1, DocAssumption DEF Elsewhere
  <2>2. req[s].doc # req[u].doc
    BY <2>1 DEF VaultInv, AloneInv, Alone
  <2>3. req'[s] = req[s] \/ req'[s].doc = NoDoc
    BY <1>1 DEF Elsewhere
  <2> QED
    BY <2>1, <2>2, <2>3, DocAssumption
<1>5. ASSUME NEW d \in Docs, d # x
      PROVE  /\ row'[d] = "none" /\ d \in objects' => d \in tainted' \/ Uploading(d)'
             /\ row'[d] = "live" /\ d \notin objects' => d \in tainted' \/ Erasing(d)'
             /\ row'[d] = "gone" => d \notin objects'
  <2>1. (Uploading(d) => Uploading(d)') /\ (Erasing(d) => Erasing(d)')
    BY <1>1, <1>5, UploadingKept, ErasingKept
  <2>2. /\ row[d] = "none" /\ d \in objects => d \in tainted \/ Uploading(d)
        /\ row[d] = "live" /\ d \notin objects => d \in tainted \/ Erasing(d)
        /\ row[d] = "gone" => d \notin objects
    BY DEF VaultInv, StoresInv
  <2>3. (d \in objects' <=> d \in objects) /\ (d \in tainted => d \in tainted')
    BY <1>5
  <2> QED
    BY <2>1, <2>2, <2>3
<1>6. StoresInv'
  BY <1>5 DEF StoresInv
<1> QED
  BY <1>3, <1>4, <1>6 DEF VaultInv

LEMMA UndoKeeps ==
    ASSUME TypeOK, VaultInv, NEW r \in Requests, Goto(r, "undo"),
           req[r].at \in {"insert", "refresh"}, NEW x \in Docs, req[r].doc = x,
           row[x] # "live" \/ x \in tainted', tainted \subseteq tainted',
           UNCHANGED <<objects, row>>
    PROVE  VaultInv'
<1>1. /\ req'[r].at = "undo" /\ req'[r].doc = x /\ Elsewhere(r)
      /\ \A s \in Requests : req'[s].doc = req[s].doc
  BY GotoFacts, PlaceNames DEF Elsewhere
<1>2. PlacesInv'
  BY <1>1 DEF VaultInv, PlacesInv, Elsewhere
<1>3. AloneInv'
  BY <1>1 DEF VaultInv, AloneInv, Alone
<1>4. \A d : (Uploading(d) => Uploading(d)') /\ (Erasing(d) => Erasing(d)')
  <2> SUFFICES ASSUME NEW d PROVE (Uploading(d) => Uploading(d)') /\ (Erasing(d) => Erasing(d)')
    OBVIOUS
  <2>1. Uploading(x)'
    BY <1>1 DEF Uploading
  <2> QED
    BY <1>1, <2>1, UploadingKept, ErasingKept
<1>5. StoresInv'
  BY <1>4 DEF VaultInv, StoresInv
<1> QED
  BY <1>2, <1>3, <1>5 DEF VaultInv

LEMMA InsertRowKeeps ==
    ASSUME TypeOK, VaultInv, NEW r \in Requests, InsertRow(r)
    PROVE  VaultInv'
<1>1. /\ req[r].at = "insert" /\ req'[r].at = "refresh" /\ req'[r].doc = req[r].doc
      /\ Elsewhere(r) /\ \A s \in Requests : req'[s].doc = req[s].doc
  BY GotoFacts, PlaceNames DEF InsertRow, Busy, Elsewhere
<1>2. req[r].doc \in Docs /\ row[req[r].doc] = "none" /\ req[r].doc \in objects
  BY <1>1, BusyRequest DEF VaultInv, PlacesInv
<1>3. /\ UNCHANGED <<objects, tainted>> /\ row'[req[r].doc] = "live"
      /\ \A d \in Docs : d # req[r].doc => row'[d] = row[d]
  BY <1>2 DEF TypeOK, InsertRow
<1>4. \A s \in Requests \ {r} : req[s].doc # req[r].doc
  BY <1>2 DEF VaultInv, AloneInv, Alone
<1>5. \A s \in Requests : req[s].at # "idle" => req[s].doc \in Docs
  BY BusyRequest
<1>6. PlacesInv'
  BY <1>1, <1>3, <1>4, <1>5 DEF VaultInv, PlacesInv, Elsewhere
<1>7. AloneInv'
  BY <1>1, <1>3, <1>4 DEF VaultInv, AloneInv, Alone
<1>8. StoresInv'
  BY <1>1, <1>2, <1>3, UploadingKept, ErasingKept DEF VaultInv, StoresInv
<1> QED
  BY <1>6, <1>7, <1>8 DEF VaultInv

LEMMA RemoveObjectKeeps ==
    ASSUME TypeOK, VaultInv, NEW r \in Requests, RemoveObject(r)
    PROVE  VaultInv'
<1>1. /\ req[r].at = "remove" /\ req'[r].at = "erase" /\ req'[r].doc = req[r].doc
      /\ Elsewhere(r) /\ \A s \in Requests : req'[s].doc = req[s].doc
  BY GotoFacts, PlaceNames DEF RemoveObject, Busy, Elsewhere
<1>2. /\ req[r].doc \in Docs /\ row[req[r].doc] # "none"
      /\ UNCHANGED <<row, tainted>> /\ objects' = objects \ {req[r].doc}
  BY <1>1, BusyRequest DEF VaultInv, PlacesInv, RemoveObject
<1>3. PlacesInv'
  BY <1>1, <1>2 DEF VaultInv, PlacesInv, Elsewhere
<1>4. AloneInv'
  BY <1>1, <1>2 DEF VaultInv, AloneInv, Alone
<1>5. \A d : (Uploading(d) => Uploading(d)') /\ (Erasing(d) => Erasing(d)')
  BY <1>1, UploadingKept, ErasingKept
<1>6. PICK x : x = req[r].doc
  OBVIOUS
<1>7. Erasing(x)'
  BY <1>1, <1>6 DEF Erasing
<1>8. StoresInv'
  BY <1>2, <1>5, <1>6, <1>7 DEF VaultInv, StoresInv
<1> QED
  BY <1>3, <1>4, <1>8 DEF VaultInv

LEMMA EraseRowKeeps ==
    ASSUME TypeOK, VaultInv, NEW r \in Requests, EraseRow(r)
    PROVE  VaultInv'
<1>1. req[r].at = "erase" /\ req'[r].at = "idle" /\ req'[r].doc = NoDoc /\ Elsewhere(r)
  BY EndFacts DEF EraseRow, Busy, Elsewhere
<1>2. PICK x : x = req[r].doc
  OBVIOUS
<1>3. x \in Docs /\ row[x] # "none" /\ x \notin objects
  BY <1>1, <1>2, BusyRequest DEF VaultInv, PlacesInv
<1>4. /\ UNCHANGED <<objects, tainted>> /\ row'[x] = "gone"
      /\ \A d \in Docs : d # x => row'[d] = row[d]
  BY <1>2, <1>3 DEF TypeOK, EraseRow
<1>5. \A s \in Requests : req[s].at # "idle" => req[s].doc \in Docs
  BY BusyRequest
<1>6. PlacesInv'
  BY <1>1, <1>3, <1>4, <1>5 DEF VaultInv, PlacesInv, Elsewhere
<1>7. AloneInv'
  <2> SUFFICES ASSUME NEW u \in Requests, req'[u].doc \in Docs, row'[req'[u].doc] = "none",
                      NEW s \in Requests \ {u}
               PROVE  req'[s].doc # req'[u].doc
    BY DEF AloneInv, Alone
  <2>1. u # r /\ req'[u] = req[u] /\ row[req[u].doc] = "none"
    BY <1>1, <1>4, DocAssumption DEF Elsewhere
  <2>2. req[s].doc # req[u].doc
    BY <2>1 DEF VaultInv, AloneInv, Alone
  <2>3. req'[s] = req[s] \/ req'[s].doc = NoDoc
    BY <1>1 DEF Elsewhere
  <2> QED
    BY <2>1, <2>2, <2>3, DocAssumption
<1>8. \A d : /\ Uploading(d) => Uploading(d)'
             /\ d # x => (Erasing(d) => Erasing(d)')
  BY <1>1, <1>2, UploadingKept, ErasingKept
<1>9. StoresInv'
  BY <1>3, <1>4, <1>8 DEF VaultInv, StoresInv
<1> QED
  BY <1>6, <1>7, <1>9 DEF VaultInv

\* Where the request of a step stands, and what is known of its document.
LEMMA Known ==
    ASSUME TypeOK, VaultInv, NEW r \in Requests, req[r].at # "idle", NEW x, req[r].doc = x
    PROVE  /\ x \in Docs /\ row[x] \in {"none", "live", "gone"}
           /\ req[r].at \in {"put", "insert"} => row[x] = "none"
           /\ req[r].at = "put" => x \notin objects
           /\ req[r].at \in {"refresh", "remove", "erase", "patch"} => row[x] # "none"
           /\ req[r].at = "undo" => row[x] # "live" \/ x \in tainted
           /\ row[x] = "none" => \A s \in Requests \ {r} : req[s].doc # x
           /\ row[x] = "live" /\ x \notin objects => x \in tainted \/ Erasing(x)
           /\ row[x] = "gone" => x \notin objects
           /\ \A s \in Requests \ {r} : req[s].doc = x /\ req[s].at \in {"put", "erase"}
                                         => x \notin objects
<1>1. x \in Docs
  BY BusyRequest
<1> QED
  BY <1>1 DEF TypeOK, VaultInv, PlacesInv, AloneInv, Alone, StoresInv

LEMMA VaultInvariant == Spec => []VaultInv
<1>1. Init => VaultInv
  <2> SUFFICES ASSUME Init PROVE VaultInv
    OBVIOUS
  <2>1. \A r \in Requests : req[r].at = "idle" /\ req[r].doc \notin Docs
    BY DocAssumption DEF Init, Idle
  <2> QED
    BY <2>1 DEF Init, VaultInv, PlacesInv, AloneInv, StoresInv
<1>2. TypeOK /\ VaultInv /\ [Next]_vars => VaultInv'
  <2> SUFFICES ASSUME TypeOK, VaultInv, [Next]_vars PROVE VaultInv'
    OBVIOUS
  <2>1. CASE UNCHANGED <<objects, row, req, tainted>>
    BY <2>1 DEF VaultInv, PlacesInv, AloneInv, Alone, StoresInv, Uploading, Erasing
  <2>2. CASE UNCHANGED vars \/ Tick
    BY <2>1, <2>2 DEF vars, Tick
  <2>3. ASSUME NEW r \in Requests, NEW d \in Docs, Delete(r, d) PROVE VaultInv'
    <3>1. Never \in Expiries
      BY DEF Expiries
    <3> QED
      BY <2>3, <3>1, BeginKeeps DEF Delete
  <2>4. ASSUME NEW r \in Requests, NEW d \in Docs, NEW e \in Expiries, Patch(r, d, e)
        PROVE  VaultInv'
    BY <2>4, BeginKeeps DEF Patch
  <2>5. ASSUME NEW r \in Requests, PutFails(r) PROVE VaultInv'
    <3>1. PICK x : req[r].doc = x
      OBVIOUS
    <3>2. req[r].at = "put" /\ End(r) /\ UNCHANGED row
      BY <2>5 DEF PutFails, Busy
    <3>3. \/ objects' = objects \cup {x} /\ tainted' = tainted \cup {x}
          \/ objects' = objects /\ tainted' = tainted
      BY <2>5, <3>1 DEF PutFails, Taint
    <3> QED
      BY <3>1, <3>2, <3>3, Known, EndKeeps
  <2>6. ASSUME NEW r \in Requests, InsertFails(r) \/ RefreshFails(r) PROVE VaultInv'
    <3>1. PICK x : req[r].doc = x
      OBVIOUS
    <3>2. req[r].at \in {"insert", "refresh"} /\ Goto(r, "undo") /\ UNCHANGED <<objects, row>>
      BY <2>6 DEF InsertFails, RefreshFails, Busy
    <3>3. \/ req[r].at = "insert" /\ tainted' = tainted
          \/ tainted' = tainted \cup {x}
      BY <2>6, <3>1 DEF InsertFails, RefreshFails, Busy, Taint
    <3>4. row[x] # "live" \/ x \in tainted'
      BY <3>1, <3>2, <3>3, Known
    <3> QED
      BY <3>1, <3>2, <3>3, <3>4, Known, UndoKeeps
  <2>7. ASSUME NEW r \in Requests, Refresh(r) PROVE VaultInv'
    <3>1. PICK x : req[r].doc = x
      OBVIOUS
    <3>2. req[r].at = "refresh" /\ UNCHANGED <<objects, row, tainted>>
      BY <2>7 DEF Refresh, Busy
    <3>3. CASE row[x] = "live"
      <4>1. End(r)
        BY <2>7, <3>1, <3>3 DEF Refresh
      <4>2. Erasing(x) => Erasing(x)'
        BY <3>2, <4>1, EndFacts, ErasingKept DEF Elsewhere
      <4> QED
        BY <3>1, <3>2, <3>3, <4>1, <4>2, Known, EndKeeps
    <3>4. CASE row[x] # "live"
      BY <2>7, <3>1, <3>2, <3>4, Known, UndoKeeps DEF Refresh
    <3> QED
      BY <3>3, <3>4
  <2>8. ASSUME NEW r \in Requests, RemoveUploaded(r) PROVE VaultInv'
    <3>1. PICK x : req[r].doc = x
      OBVIOUS
    <3>2. /\ req[r].at = "undo" /\ End(r) /\ UNCHANGED <<row, tainted>>
          /\ objects' = objects \ {x}
      BY <2>8, <3>1 DEF RemoveUploaded, Busy
    <3> QED
      BY <3>1, <3>2, Known, EndKeeps
  <2>9. ASSUME NEW r \in Requests, RemoveFails(r) PROVE VaultInv'
    <3>1. PICK x : req[r].doc = x
      OBVIOUS
    <3>2. req[r].at = "remove" /\ End(r) /\ UNCHANGED row
      BY <2>9 DEF RemoveFails, Busy
    <3>3. \/ objects' = objects \ {x} /\ tainted' = tainted \cup {x}
          \/ objects' = objects /\ tainted' = tainted
      BY <2>9, <3>1 DEF RemoveFails, Taint
    <3>4. Erasing(x) => Erasing(x)'
      BY <3>2, EndFacts, ErasingKept DEF Elsewhere
    <3> QED
      BY <3>1, <3>2, <3>3, <3>4, Known, EndKeeps
  <2>10. ASSUME NEW r \in Requests, PatchRow(r) PROVE VaultInv'
    <3>1. PICK x : req[r].doc = x
      OBVIOUS
    <3>2. req[r].at = "patch" /\ End(r) /\ UNCHANGED <<objects, row, tainted>>
      BY <2>10 DEF PatchRow, Busy
    <3>3. Erasing(x) => Erasing(x)'
      BY <3>2, EndFacts, ErasingKept DEF Elsewhere
    <3> QED
      BY <3>1, <3>2, <3>3, Known, EndKeeps
  <2>11. ASSUME NEW r \in Requests, Dies(r) PROVE VaultInv'
    <3>1. PICK x : req[r].doc = x
      OBVIOUS
    <3>2. /\ req[r].at \in {"insert", "refresh", "undo", "erase", "patch"} /\ End(r)
          /\ UNCHANGED <<objects, row>>
      BY <2>11 DEF Dies
    <3>3. \/ req[r].at \in {"insert", "undo", "erase"} /\ tainted' = tainted \cup {x}
          \/ req[r].at \in {"refresh", "patch"} /\ tainted' = tainted
      BY <2>11, <3>1, <3>2 DEF Dies, Taint
    <3>4. req[r].at # "erase" => (Erasing(x) => Erasing(x)')
      BY <3>2, EndFacts, ErasingKept DEF Elsewhere
    <3> QED
      BY <3>1, <3>2, <3>3, <3>4, Known, EndKeeps
  <2> QED
    BY NextCases, <2>2, <2>3, <2>4, <2>5, <2>6, <2>7, <2>8, <2>9, <2>10, <2>11, UploadKeeps,
       PutObjectKeeps, InsertRowKeeps, RemoveObjectKeeps, EraseRowKeeps
<1> QED
  BY <1>1, <1>2, TypeCorrect, PTL DEF Spec
-----------------------------------------------------------------------------
(* The properties.                                                         *)

\* MinIO and the table agree on every document that no request is busy with and that
\* no failure caught in between, for any number of overlapping requests.
THEOREM ConsistentSafe == Spec => []Consistent
<1>1. TypeOK /\ VaultInv => Consistent
  <2> SUFFICES ASSUME TypeOK, VaultInv, NEW d \in Docs \ tainted, Quiet(d)
               PROVE  d \in objects <=> row[d] = "live"
    BY DEF Consistent
  <2>1. ~ Uploading(d) /\ ~ Erasing(d)
    BY DEF Quiet, Uploading, Erasing
  <2>2. row[d] \in {"none", "live", "gone"}
    BY DEF TypeOK
  <2> QED
    BY <2>1, <2>2 DEF VaultInv, StoresInv
<1> QED
  BY <1>1, TypeCorrect, VaultInvariant, PTL

\* Whatever fails, a deleted row leaves no object behind in the bucket.
THEOREM NothingLeftSafe == Spec => []NothingLeftBehind
<1>1. VaultInv => NothingLeftBehind
  BY DEF VaultInv, StoresInv, NothingLeftBehind
<1> QED
  BY <1>1, VaultInvariant, PTL

\* A row that was deleted stays deleted: a document whose deletion overlaps an upload
\* or a change of its metadata does not come back.
THEOREM DeletedSafe == Spec => DeletedForGood
<1>1. TypeOK /\ VaultInv /\ [Next]_vars => [\A d \in Docs : row[d] = "gone" => row'[d] = "gone"]_vars
  <2> SUFFICES ASSUME TypeOK, VaultInv, [Next]_vars, NEW d \in Docs, row[d] = "gone"
               PROVE  row'[d] = "gone" \/ UNCHANGED vars
    OBVIOUS
  <2>1. ASSUME NEW r \in Requests, InsertRow(r) PROVE row'[d] = "gone"
    <3>1. req[r].doc # d
      BY <2>1 DEF InsertRow, Busy, VaultInv, PlacesInv
    <3> QED
      BY <2>1, <3>1 DEF InsertRow, TypeOK
  <2>2. ASSUME NEW r \in Requests, EraseRow(r) PROVE row'[d] = "gone"
    BY <2>2 DEF EraseRow, TypeOK
  <2>3. CASE UNCHANGED row
    BY <2>3
  <2>4. ASSUME NEW r \in Requests, NEW e \in Docs, NEW x \in Expiries,
               Delete(r, e) \/ Upload(r, e, x) \/ Patch(r, e, x)
        PROVE  UNCHANGED row
    BY <2>4 DEF Delete, Upload, Patch
  <2>5. ASSUME NEW r \in Requests, PutObject(r) \/ PutFails(r) \/ InsertFails(r) \/ Refresh(r)
                                 \/ RefreshFails(r) \/ RemoveUploaded(r)
        PROVE  UNCHANGED row
    BY <2>5 DEF PutObject, PutFails, InsertFails, Refresh, RefreshFails, RemoveUploaded
  <2>6. ASSUME NEW r \in Requests, \/ RemoveObject(r) \/ RemoveFails(r) \/ PatchRow(r) \/ Dies(r)
        PROVE  UNCHANGED row
    BY <2>6 DEF RemoveObject, RemoveFails, PatchRow, Dies
  <2>7. CASE Tick
    BY <2>3, <2>7 DEF Tick
  <2>8. Never \in Expiries
    BY DEF Expiries
  <2> QED
    BY NextCases, <2>1, <2>2, <2>3, <2>4, <2>5, <2>6, <2>7, <2>8
<1> QED
  BY <1>1, TypeCorrect, VaultInvariant, PTL DEF Spec, DeletedForGood

LEMMA LaterIsOffered ==
    ASSUME NEW e \in Nat, NEW now \in Nat, e > now
    PROVE  ExpiryStatus(e, now) # "expired"
<1>1. Day \in Nat \ {0}
  BY TimeAssumption
<1> QED
  BY <1>1 DEF ExpiryStatus, Never

LEMMA EarlierIsExpired ==
    ASSUME NEW e \in Nat, NEW now \in Nat, ~ (e > now)
    PROVE  ExpiryStatus(e, now) = "expired"
<1>1. Day \in Nat \ {0} /\ e - now <= 0 /\ ~ (e - now > 0)
  BY TimeAssumption
<1> QED
  BY <1>1 DEF ExpiryStatus, Never

\* The badge says "expired" exactly of the documents that cannot be attached, at every
\* instant and for every length of the day (WR-01, the boundary at zero days).
THEOREM ExpirySafe == Spec => []ExpiredIsNotOffered
<1>1. TypeOK => ExpiredIsNotOffered
  <2> SUFFICES ASSUME TypeOK, NEW d \in Docs, row[d] = "live"
               PROVE  d \in Attachable <=> ExpiryStatus(expires[d], clock) # "expired"
    BY DEF ExpiredIsNotOffered
  <2>1. expires[d] \in Times \cup {Never} /\ clock \in Times /\ Times \subseteq Nat
    BY TimeAssumption DEF TypeOK, Expiries
  <2>2. d \in Attachable <=> expires[d] = Never \/ expires[d] > clock
    BY DEF Attachable
  <2>3. CASE expires[d] = Never
    BY <2>2, <2>3 DEF ExpiryStatus
  <2>4. CASE expires[d] # Never
    <3>1. expires[d] \in Nat /\ clock \in Nat
      BY <2>1, <2>4
    <3>2. CASE expires[d] > clock
      <4>1. ExpiryStatus(expires[d], clock) # "expired"
        BY <3>1, <3>2, LaterIsOffered
      <4> QED
        BY <2>2, <3>2, <4>1
    <3>3. CASE ~ (expires[d] > clock)
      <4>1. ExpiryStatus(expires[d], clock) = "expired"
        BY <3>1, <3>3, EarlierIsExpired
      <4> QED
        BY <2>2, <2>4, <3>3, <4>1
    <3> QED
      BY <3>2, <3>3
  <2> QED
    BY <2>3, <2>4
<1> QED
  BY <1>1, TypeCorrect, PTL
-----------------------------------------------------------------------------
\* Also while requests are under way: of a document that no failure has caught, the
\* stores disagree only where a request is on its way from the one to the other, so
\* what the user sees listed can be downloaded until a deletion has removed the object.
THEOREM DisagreementsSafe == Spec => []DisagreementsAreUnderWay
<1>1. TypeOK /\ VaultInv => DisagreementsAreUnderWay
  <2> SUFFICES ASSUME TypeOK, VaultInv, NEW d \in Docs \ tainted
               PROVE  /\ row[d] = "live" /\ d \notin objects => Erasing(d)
                      /\ row[d] # "live" /\ d \in objects => Uploading(d)
    BY DEF DisagreementsAreUnderWay, Erasing, Uploading
  <2>1. row[d] \in {"none", "live", "gone"}
    BY DEF TypeOK
  <2> QED
    BY <2>1 DEF VaultInv, StoresInv
<1> QED
  BY <1>1, TypeCorrect, VaultInvariant, PTL

\* Nothing is caught between the stores without a failure.
LEMMA TaintNeedsFault == Spec => [](tainted # {} => faults > 0)
<1> DEFINE TaintInv == tainted # {} => faults > 0
<1>1. Init => TaintInv
  BY DEF Init
<1>2. TypeOK /\ TaintInv /\ [Next]_vars => TaintInv'
  <2> SUFFICES ASSUME TypeOK, TaintInv, [Next]_vars PROVE TaintInv'
    OBVIOUS
  <2>1. CASE UNCHANGED <<tainted, faults>>
    BY <2>1
  <2>2. CASE Fault
    BY <2>2 DEF Fault, TypeOK
  <2>3. CASE \/ UNCHANGED vars \/ Tick
             \/ \E r \in Requests, d \in Docs : Delete(r, d)
             \/ \E r \in Requests, d \in Docs, e \in Expiries : Upload(r, d, e) \/ Patch(r, d, e)
    BY <2>1, <2>3 DEF vars, Tick, Delete, Upload, Patch
  <2>4. CASE \E r \in Requests : \/ PutObject(r) \/ InsertRow(r) \/ Refresh(r)
                                 \/ RemoveUploaded(r) \/ RemoveObject(r)
                                 \/ EraseRow(r) \/ PatchRow(r)
    BY <2>1, <2>4 DEF PutObject, InsertRow, Refresh, RemoveUploaded, RemoveObject, EraseRow, PatchRow
  <2>5. CASE \E r \in Requests : \/ PutFails(r) \/ InsertFails(r) \/ RefreshFails(r)
                                 \/ RemoveFails(r) \/ Dies(r)
    BY <2>2, <2>5 DEF PutFails, InsertFails, RefreshFails, RemoveFails, Dies
  <2> QED
    BY NextCases, <2>3, <2>4, <2>5
<1> QED
  BY <1>1, <1>2, TypeCorrect, PTL DEF Spec

\* An upload takes the object away under the row that it has committed only after a
\* failure of its db.refresh, never for having overlapped other requests.
THEOREM RollbackSafe == Spec => []RollbackNeedsFailure
<1>1. TypeOK /\ VaultInv /\ (tainted # {} => faults > 0) => RollbackNeedsFailure
  BY DEF VaultInv, PlacesInv, RollbackNeedsFailure, Busy
<1> QED
  BY <1>1, TypeCorrect, VaultInvariant, TaintNeedsFault, PTL
=============================================================================
