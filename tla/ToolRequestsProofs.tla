------------------------- MODULE ToolRequestsProofs -------------------------
(***************************************************************************)
(* Proofs about ToolRequests, for any rows, calls and texts.               *)
(*                                                                         *)
(* What a call will write was decided when it loaded its row, so the       *)
(* inductive invariant says what a call that has loaded relies on: its row *)
(* is there, its body is one its endpoint may write, and it passed the     *)
(* checks of its endpoint against its copy.                                *)
(***************************************************************************)
EXTENDS ToolRequests, TLAPS

(* A call that came through the scope check.                               *)
Accepted(c) ==
  /\ doing[c] \in Endpoint
  /\ target[c] \in Row
  /\ body[c] \in Bodies(doing[c])

(* What the rest of the call relies on once its row is loaded.             *)
Loaded(c) ==
  /\ copy[c] \in StoredRow
  /\ stored[target[c]] \in StoredRow
  /\ \/ doing[c] = "edit" /\ copy[c].status # "live"
     \/ doing[c] = "set_status" /\ body[c].status \in Status

CallsAreSound ==
  \A c \in Call :
    /\ at[c] \in {"allowed", "loaded"} => Accepted(c)
    /\ at[c] = "loaded" => Loaded(c)

IndInv == TypeOK /\ CallsAreSound /\ OnlyTheGranted

-----------------------------------------------------------------------------
(* Scopes. *)

(* The scopes the calls are made with and the tree they form: what         *)
(* scope_grants accepts for an endpoint covers that endpoint.              *)
LEMMA GrantsCover ==
  ASSUME NEW granted \in Scope, NEW e \in Endpoint, Grants(granted, RequiredScope[e])
  PROVE  CoveredBy(granted, RequiredScope[e])
<1> DEFINE r == RequiredScope[e]
<1>1. /\ Len(r) = 4 /\ r[1] = "tools" /\ r[2] = "." /\ r[3] = "request"
      /\ r[4] \in {"_add", "_edit", "_status"} /\ Head(r) = "tools"
  BY DEF Endpoint, RequiredScope
<1>2. CASE granted = <<"*">>
  BY <1>2 DEF CoveredBy
<1>3. CASE granted = r
  BY <1>3 DEF CoveredBy
<1>4. CASE IsPrefixOf(Append(granted, "."), r) /\ granted = <<"tools">>
  BY <1>4, <1>1 DEF CoveredBy
<1>5. CASE IsPrefixOf(Append(granted, "."), r) /\ granted = <<"wms">>
  <2>1. Append(granted, ".")[1] = "wms" /\ Len(Append(granted, ".")) = 2
    BY <1>5
  <2>2. SubSeq(r, 1, 2)[1] = r[1]
    BY <1>1 DEF Endpoint, RequiredScope
  <2> QED
    BY <1>1, <1>5, <2>1, <2>2 DEF IsPrefixOf
<1>6. CASE IsPrefixOf(Append(granted, "."), r) /\ granted = <<"tools", ".", "request">>
  <2>1. Append(granted, ".")[4] = "." /\ Len(Append(granted, ".")) = 4
    BY <1>6
  <2>2. SubSeq(r, 1, 4)[4] = r[4]
    BY <1>1 DEF Endpoint, RequiredScope
  <2> QED
    BY <1>1, <1>6, <2>1, <2>2 DEF IsPrefixOf
<1>7. CASE IsPrefixOf(Append(granted, "."), r) /\ Len(granted) = 4
  BY <1>1, <1>7 DEF IsPrefixOf, Scope
<1> QED
  BY <1>2, <1>3, <1>4, <1>5, <1>6, <1>7 DEF Grants, Scope

-----------------------------------------------------------------------------
(* Columns. *)

(* An edit writes texts and leaves the status as it finds it.              *)
LEMMA EditWritesText ==
  ASSUME NEW old \in StoredRow, NEW loaded \in StoredRow, NEW new \in Content
  PROVE  /\ Update(old, loaded, new) \in StoredRow
         /\ Update(old, loaded, new).status = old.status
<1> DEFINE r == Update(old, loaded, new)
<1>1. DOMAIN old = {"title", "description", "status"}
  BY DEF StoredRow
<1>2. DOMAIN new = {"title", "description"}
  BY DEF Content, ContentColumn
<1>3. r = [title |-> r.title, description |-> r.description, status |-> r.status]
  BY <1>1 DEF Update
<1>4. r.title \in Value /\ r.description \in Value
  BY <1>1, <1>2 DEF Update, StoredRow, Content, ContentColumn
<1>5. r.status = old.status
  BY <1>1, <1>2 DEF Update
<1> HIDE DEF r
<1>6. old.status \in Status
  BY DEF StoredRow
<1>7. r \in StoredRow
  BY <1>3, <1>4, <1>5, <1>6 DEF StoredRow
<1> QED
  BY <1>5, <1>7 DEF r

(* A change of status writes that status or, if it was loaded already,     *)
(* nothing.                                                                *)
LEMMA StatusWritesStatus ==
  ASSUME NEW old \in StoredRow, NEW loaded \in StoredRow,
         NEW new \in StatusBody, new.status \in Status
  PROVE  /\ Update(old, loaded, new) \in StoredRow
         /\ \A column \in ContentColumn : Update(old, loaded, new)[column] = old[column]
         /\ Update(old, loaded, new).status # old.status =>
              Update(old, loaded, new).status = new.status
         /\ Update(old, loaded, new).status = old.status => Update(old, loaded, new) = old
<1> DEFINE r == Update(old, loaded, new)
<1>1. DOMAIN old = {"title", "description", "status"}
  BY DEF StoredRow
<1>2. DOMAIN new = {"status"}
  BY DEF StatusBody
<1>3. r = [title |-> r.title, description |-> r.description, status |-> r.status]
  BY <1>1 DEF Update
<1>4. r.title = old.title /\ r.description = old.description
  BY <1>1, <1>2 DEF Update
<1>5. r.status = new.status \/ r.status = old.status
  BY <1>1, <1>2 DEF Update
<1> HIDE DEF r
<1>6. old.title \in Value /\ old.description \in Value /\ old.status \in Status
  BY DEF StoredRow
<1>7. r \in StoredRow
  BY <1>3, <1>4, <1>5, <1>6 DEF StoredRow
<1>8. r.status = old.status => r = old
  BY <1>3, <1>4 DEF StoredRow
<1> QED
  BY <1>4, <1>5, <1>7, <1>8 DEF r, ContentColumn

-----------------------------------------------------------------------------
(* The invariant. *)

LEMMA InitIndInv == Init => IndInv
BY DEF Init, IndInv, TypeOK, CallsAreSound, OnlyTheGranted, Endpoint

LEMMA ReceiveKeeps ==
  ASSUME IndInv, NEW c \in Call, Receive(c)
  PROVE  IndInv'
<1>1. CASE at' = [at EXCEPT ![c] = "refused"] /\ UNCHANGED <<stored, copy, callVars>>
  BY <1>1 DEF IndInv, TypeOK, CallsAreSound, Accepted, Loaded, OnlyTheGranted, callVars
<1>2. ASSUME NEW e \in Endpoint, NEW granted \in Scope, Grants(granted, RequiredScope[e]),
             NEW q \in Row, NEW b \in Bodies(e),
             at' = [at EXCEPT ![c] = "allowed"],
             doing' = [doing EXCEPT ![c] = e],
             claims' = [claims EXCEPT ![c] = {granted}],
             target' = [target EXCEPT ![c] = q],
             body' = [body EXCEPT ![c] = b],
             UNCHANGED <<stored, copy>>
      PROVE  IndInv'
  <2>1. b \in Content \cup StatusBody
    BY DEF Bodies
  <2>2. TypeOK'
    BY <1>2, <2>1 DEF IndInv, TypeOK
  <2>3. CallsAreSound'
    BY <1>2 DEF IndInv, TypeOK, CallsAreSound, Accepted, Loaded
  <2>4. CoveredBy(granted, RequiredScope[e])
    BY <1>2, GrantsCover
  <2>5. OnlyTheGranted'
    BY <1>2, <2>4 DEF IndInv, TypeOK, OnlyTheGranted
  <2> QED
    BY <2>2, <2>3, <2>5 DEF IndInv
<1> QED
  BY <1>1, <1>2 DEF Receive

LEMMA CreateKeeps ==
  ASSUME IndInv, NEW c \in Call, Create(c)
  PROVE  IndInv'
<1> DEFINE row == [title |-> body[c].title, description |-> body[c].description,
                   status |-> "draft"]
<1>1. target[c] \in Row /\ body[c] \in Content
  BY DEF Create, IndInv, CallsAreSound, Accepted, Bodies
<1>2. row \in StoredRow
  BY <1>1 DEF Content, ContentColumn, StoredRow, Status
<1>3. stored' = [stored EXCEPT ![target[c]] = row]
  BY DEF Create
<1> HIDE DEF row
<1>4. TypeOK'
  BY <1>2, <1>3 DEF IndInv, TypeOK, Create, callVars
<1>5. CallsAreSound'
  BY <1>1, <1>2, <1>3 DEF IndInv, TypeOK, CallsAreSound, Accepted, Loaded, Create, callVars
<1>6. OnlyTheGranted'
  BY DEF IndInv, TypeOK, OnlyTheGranted, Create, callVars
<1> QED
  BY <1>4, <1>5, <1>6 DEF IndInv

LEMMA LoadForEditKeeps ==
  ASSUME IndInv, NEW c \in Call, LoadForEdit(c)
  PROVE  IndInv'
<1>1. Accepted(c)
  BY DEF IndInv, CallsAreSound, LoadForEdit
<1>2. stored[target[c]] \in StoredRow \cup {None}
  BY <1>1 DEF IndInv, TypeOK, Accepted
<1>3. copy' = [copy EXCEPT ![c] = stored[target[c]]]
  BY DEF LoadForEdit
<1>4. copy'[c] = stored[target[c]]
  BY <1>3 DEF IndInv, TypeOK
<1>5. TypeOK'
  BY <1>2, <1>3 DEF IndInv, TypeOK, LoadForEdit, callVars
<1>6. CallsAreSound'
  BY <1>1, <1>2, <1>3, <1>4
     DEF IndInv, TypeOK, CallsAreSound, Accepted, Loaded, LoadForEdit, callVars
<1>7. OnlyTheGranted'
  BY DEF IndInv, TypeOK, OnlyTheGranted, LoadForEdit, callVars
<1> QED
  BY <1>5, <1>6, <1>7 DEF IndInv

LEMMA LoadForStatusKeeps ==
  ASSUME IndInv, NEW c \in Call, LoadForStatus(c)
  PROVE  IndInv'
<1>1. Accepted(c)
  BY DEF IndInv, CallsAreSound, LoadForStatus
<1>2. stored[target[c]] \in StoredRow \cup {None}
  BY <1>1 DEF IndInv, TypeOK, Accepted
<1>3. TypeOK'
  BY <1>2 DEF IndInv, TypeOK, LoadForStatus, callVars
<1>4. CallsAreSound'
  BY <1>1, <1>2
     DEF IndInv, TypeOK, CallsAreSound, Accepted, Loaded, LoadForStatus, callVars
<1>5. OnlyTheGranted'
  BY DEF IndInv, TypeOK, OnlyTheGranted, LoadForStatus, callVars
<1> QED
  BY <1>3, <1>4, <1>5 DEF IndInv

(* What a commit does to its row.                                          *)
LEMMA CommitWrites ==
  ASSUME IndInv, NEW c \in Call, TouchAndCommit(c)
  PROVE  /\ target[c] \in Row
         /\ stored[target[c]] \in StoredRow
         /\ stored'[target[c]] \in StoredRow
         /\ stored' = [stored EXCEPT ![target[c]] = stored'[target[c]]]
         /\ doing[c] \in {"edit", "set_status"}
         /\ doing[c] = "edit" => /\ copy[c].status # "live"
                                 /\ stored'[target[c]].status = stored[target[c]].status
         /\ doing[c] = "set_status" =>
              /\ \A column \in ContentColumn :
                   stored'[target[c]][column] = stored[target[c]][column]
              /\ stored'[target[c]].status # stored[target[c]].status =>
                   stored'[target[c]].status = body[c].status
              /\ stored'[target[c]].status = stored[target[c]].status =>
                   stored'[target[c]] = stored[target[c]]
<1>1. Accepted(c) /\ Loaded(c)
  BY DEF IndInv, CallsAreSound, TouchAndCommit
<1>2. stored'[target[c]] = Update(stored[target[c]], copy[c], body[c])
  BY <1>1 DEF TouchAndCommit, Accepted, IndInv, TypeOK
<1>3. stored' = [stored EXCEPT ![target[c]] = stored'[target[c]]]
  BY <1>2 DEF TouchAndCommit
<1> DEFINE row == Update(stored[target[c]], copy[c], body[c])
<1>4. stored'[target[c]] = row
  BY <1>2
<1>5. CASE doing[c] = "edit"
  <2>1. body[c] \in Content
    BY <1>1, <1>5 DEF Accepted, Bodies
  <2>2. row \in StoredRow /\ row.status = stored[target[c]].status
    BY <1>1, <2>1, EditWritesText DEF Loaded
  <2> HIDE DEF row
  <2> QED
    BY <1>1, <1>3, <1>4, <1>5, <2>2 DEF Accepted, Loaded
<1>6. CASE doing[c] = "set_status"
  <2>1. body[c] \in StatusBody /\ body[c].status \in Status
    BY <1>1, <1>6 DEF Accepted, Loaded, Bodies
  <2>2. /\ row \in StoredRow
        /\ \A column \in ContentColumn : row[column] = stored[target[c]][column]
        /\ row.status # stored[target[c]].status => row.status = body[c].status
        /\ row.status = stored[target[c]].status => row = stored[target[c]]
    BY <1>1, <2>1, StatusWritesStatus DEF Loaded
  <2> HIDE DEF row
  <2> QED
    BY <1>1, <1>3, <1>4, <1>6, <2>2 DEF Accepted, Loaded
<1> QED
  BY <1>1, <1>5, <1>6 DEF Loaded

LEMMA CommitKeeps ==
  ASSUME IndInv, NEW c \in Call, TouchAndCommit(c)
  PROVE  IndInv'
<1>1. /\ target[c] \in Row
      /\ stored'[target[c]] \in StoredRow
      /\ stored' = [stored EXCEPT ![target[c]] = stored'[target[c]]]
  BY CommitWrites
<1> DEFINE row == stored'[target[c]]
<1>2. row \in StoredRow /\ stored' = [stored EXCEPT ![target[c]] = row]
  BY <1>1
<1> HIDE DEF row
<1>3. at' = [at EXCEPT ![c] = "answered"] /\ UNCHANGED <<callVars, copy>>
  BY DEF TouchAndCommit
<1>4. TypeOK'
  BY <1>2, <1>3 DEF IndInv, TypeOK, callVars
<1>5. CallsAreSound'
  BY <1>1, <1>2, <1>3 DEF IndInv, TypeOK, CallsAreSound, Accepted, Loaded, callVars
<1>6. OnlyTheGranted'
  BY <1>3 DEF IndInv, TypeOK, OnlyTheGranted, callVars, TouchAndCommit
<1> QED
  BY <1>4, <1>5, <1>6 DEF IndInv

LEMMA AbortKeeps ==
  ASSUME IndInv, NEW c \in Call, Abort(c)
  PROVE  IndInv'
BY DEF Abort, IndInv, TypeOK, CallsAreSound, Accepted, Loaded, OnlyTheGranted, callVars

LEMMA StutterKeeps ==
  ASSUME IndInv, UNCHANGED vars
  PROVE  IndInv'
BY DEF vars, callVars, IndInv, TypeOK, CallsAreSound, Accepted, Loaded, OnlyTheGranted

(* However calls overlap, each was accepted and has a row that its checks  *)
(* let it write, until it ends.                                            *)
THEOREM Invariance == Spec => []IndInv
<1>1. IndInv /\ [Next]_vars => IndInv'
  BY ReceiveKeeps, CreateKeeps, LoadForEditKeeps, LoadForStatusKeeps, CommitKeeps,
     AbortKeeps, StutterKeeps DEF Next
<1> QED
  BY <1>1, InitIndInv, PTL DEF Spec

-----------------------------------------------------------------------------
(* What follows. *)

(* The variables keep their types: what ends up in a row of the table is a *)
(* whole row with one of the three statuses.                               *)
THEOREM TypeCorrect == Spec => []TypeOK
<1>1. IndInv => TypeOK
  BY DEF IndInv
<1> QED
  BY <1>1, Invariance, PTL

(* _require_scope lets nobody to the table whose scope does not cover the  *)
(* endpoint, by the tree scopes form.                                      *)
THEOREM ScopesHold == Spec => []OnlyTheGranted
<1>1. IndInv => OnlyTheGranted
  BY DEF IndInv
<1> QED
  BY <1>1, Invariance, PTL

(* How a row that is there may change in a step.                           *)
LEMMA RowChanges ==
  ASSUME IndInv, [Next]_vars, NEW q \in Row, stored[q] # None, stored'[q] # stored[q]
  PROVE  \E c \in Call : TouchAndCommit(c) /\ target[c] = q
<1>1. ~UNCHANGED stored
  OBVIOUS
<1>2. PICK c \in Call : Create(c) \/ TouchAndCommit(c)
  BY <1>1 DEF Next, vars, Receive, LoadForEdit, LoadForStatus, Abort
<1>3. target[c] = q
  BY <1>2 DEF Create, TouchAndCommit, IndInv, TypeOK
<1>4. ~Create(c)
  BY <1>3 DEF Create
<1> QED
  BY <1>2, <1>3, <1>4

(* "Live requests are read-only" (service.py:44), but for the edits that   *)
(* had read their row before it went live.                                 *)
THEOREM LiveKept == Spec => LiveIsReadOnly
<1>1. ASSUME IndInv, [Next]_vars, NEW q \in Row,
             stored[q] # None, stored[q].status = "live", stored'[q].status = "live",
             \A c \in Call : ~LateEdit(c, q)
      PROVE  stored'[q] = stored[q]
  <2> SUFFICES ASSUME stored'[q] # stored[q] PROVE FALSE
    OBVIOUS
  <2>1. PICK c \in Call : TouchAndCommit(c) /\ target[c] = q
    BY <1>1, RowChanges
  <2>2. CASE doing[c] = "edit"
    <3>1. LateEdit(c, q)
      BY <1>1, <2>1, <2>2, CommitWrites DEF LateEdit, TouchAndCommit
    <3> QED
      BY <1>1, <3>1
  <2>3. CASE doing[c] = "set_status"
    BY <1>1, <2>1, <2>3, CommitWrites
  <2> QED
    BY <1>1, <2>1, <2>2, <2>3, CommitWrites
<1>2. IndInv /\ [Next]_vars =>
        [\A q \in Row :
           (stored[q] # None /\ stored[q].status = "live"
              /\ stored'[q].status = "live"
              /\ \A c \in Call : ~LateEdit(c, q)) =>
             stored'[q] = stored[q]]_vars
  BY <1>1
<1> QED
  BY <1>2, Invariance, PTL DEF Spec, LiveIsReadOnly

(* Edits and changes of status that overlap do not undo each other.        *)
THEOREM NothingIsUndone == Spec => StatusAndTextAreApart
<1> DEFINE Apart(q) ==
       IF stored'[q].status = stored[q].status
       THEN \E c \in Call : doing[c] = "edit" /\ target[c] = q /\ at'[c] # at[c]
       ELSE /\ \A column \in ContentColumn : stored'[q][column] = stored[q][column]
            /\ \E c \in Call : /\ doing[c] = "set_status" /\ target[c] = q
                               /\ at'[c] # at[c] /\ body[c].status = stored'[q].status
<1>1. ASSUME IndInv, [Next]_vars, NEW q \in Row, stored[q] # None, stored'[q] # stored[q]
      PROVE  Apart(q)
  <2>1. PICK c \in Call : TouchAndCommit(c) /\ target[c] = q
    BY <1>1, RowChanges
  <2>2. at'[c] # at[c]
    BY <1>1, <2>1 DEF TouchAndCommit, IndInv, TypeOK
  <2>3. CASE doing[c] = "edit"
    BY <1>1, <2>1, <2>2, <2>3, CommitWrites
  <2>4. CASE doing[c] = "set_status"
    BY <1>1, <2>1, <2>2, <2>4, CommitWrites
  <2> QED
    BY <1>1, <2>1, <2>3, <2>4, CommitWrites
<1>2. IndInv /\ [Next]_vars =>
        [\A q \in Row : (stored[q] # None /\ stored'[q] # stored[q]) => Apart(q)]_vars
  BY <1>1
<1> QED
  BY <1>2, Invariance, PTL DEF Spec, StatusAndTextAreApart
=============================================================================
