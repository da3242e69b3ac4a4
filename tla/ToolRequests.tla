---------------------------- MODULE ToolRequests ----------------------------
(***************************************************************************)
(* The endpoints that create and change tool requests                      *)
(* (app/tool_requests/router.py, service.py).                              *)
(*                                                                         *)
(* A call reads the row, decides, and commits: two steps of two            *)
(* statements between which other calls may commit.  The ORM's UPDATE      *)
(* names the columns whose value differs from the one the call read.       *)
(* Of title, description and domain, which are treated alike, there are    *)
(* two here.                                                               *)
(***************************************************************************)
EXTENDS Scopes, SequencesExt

CONSTANTS
  Row,   \* ids of tool requests
  Call,  \* calls of the endpoints, each made at most once
  Value, \* values of a text column
  None   \* a row that is not there

VARIABLES
  stored, \* the table: rows or None
  doing,  \* endpoint of each call: "none" before it is made
  claims, \* scopes its token allows
  target, \* the row it is about
  body,   \* what it was sent: columns to be set
  copy,   \* the row as it loaded it
  at      \* where it is

vars == <<stored, doing, claims, target, body, copy, at>>
callVars == <<doing, claims, target, body>>

Status == {"draft", "posted", "live"}
ContentColumn == {"title", "description"}
Content == [ContentColumn -> Value]
StatusBody == [status : Status \cup {"staging"}]
NoBody == [column \in {} |-> None]
StoredRow == [title : Value, description : Value, status : Status]

(* A scope, and the set of those the calls are made with: the wildcard, a  *)
(* parent, the very scope, a sibling and one that is a prefix only as text.*)
Scope == {<<"*">>, <<"tools">>, <<"tools", ".", "request">>,
          <<"tools", ".", "request", "_add">>, <<"tools", ".", "request", "_edit">>,
          <<"tools", ".", "request", "_status">>, <<"wms">>}

Endpoint == {"create", "edit", "set_status"}

RequiredScope ==
  [create |-> <<"tools", ".", "request", "_add">>,
   edit |-> <<"tools", ".", "request", "_edit">>,
   set_status |-> <<"tools", ".", "request", "_status">>]

TypeOK ==
  /\ stored \in [Row -> StoredRow \cup {None}]
  /\ doing \in [Call -> Endpoint \cup {"none"}]
  /\ claims \in [Call -> SUBSET Scope]
  /\ target \in [Call -> Row \cup {None}]
  /\ body \in [Call -> Content \cup StatusBody \cup {NoBody}]
  /\ copy \in [Call -> StoredRow \cup {None}]
  /\ at \in [Call -> {"new", "allowed", "loaded", "answered", "refused"}]

(* Rows that were there before these calls, or are not yet.                *)
Init ==
  /\ stored \in [Row -> StoredRow \cup {None}]
  /\ doing = [c \in Call |-> "none"]
  /\ claims = [c \in Call |-> {}]
  /\ target = [c \in Call |-> None]
  /\ body = [c \in Call |-> NoBody]
  /\ copy = [c \in Call |-> None]
  /\ at = [c \in Call |-> "new"]

-----------------------------------------------------------------------------
(* Definitions whose comment begins "Mutant" are deliberate mistakes:      *)
(* each, put in the place of the definition after it, must make one of the *)
(* properties fail.                                                        *)

Bodies(e) == IF e = "set_status" THEN StatusBody ELSE Content

(* The request arrives; _require_scope answers 403 or lets it pass.        *)
Receive(c) ==
  /\ at[c] = "new"
  /\ \E e \in Endpoint, granted \in Scope :
       IF Grants(granted, RequiredScope[e])
       THEN /\ at' = [at EXCEPT ![c] = "allowed"]
            /\ doing' = [doing EXCEPT ![c] = e]
            /\ claims' = [claims EXCEPT ![c] = {granted}]
            /\ \E q \in Row : target' = [target EXCEPT ![c] = q]
            /\ \E b \in Bodies(e) : body' = [body EXCEPT ![c] = b]
       ELSE /\ at' = [at EXCEPT ![c] = "refused"]
            /\ UNCHANGED callVars
  /\ UNCHANGED <<stored, copy>>

(* create: the id is new.                                                  *)
Create(c) ==
  /\ at[c] = "allowed" /\ doing[c] = "create"
  /\ stored[target[c]] = None
  /\ stored' = [stored EXCEPT ![target[c]] =
       [title |-> body[c].title, description |-> body[c].description, status |-> "draft"]]
  /\ at' = [at EXCEPT ![c] = "answered"]
  /\ UNCHANGED <<callVars, copy>>

(* Mutant of LoadForEdit: Live requests can be written.                    *)
LoadForEditUnchecked(c) ==
  /\ at[c] = "allowed" /\ doing[c] = "edit"
  /\ copy' = [copy EXCEPT ![c] = stored[target[c]]]
  /\ at' = [at EXCEPT ![c] = IF stored[target[c]] = None THEN "refused" ELSE "loaded"]
  /\ UNCHANGED <<stored, callVars>>

(* update_content: 404 without a row, 409 if it is live.                   *)
LoadForEdit(c) ==
  /\ at[c] = "allowed" /\ doing[c] = "edit"
  /\ copy' = [copy EXCEPT ![c] = stored[target[c]]]
  /\ at' = [at EXCEPT ![c] =
       IF copy'[c] = None \/ copy'[c].status = "live" THEN "refused" ELSE "loaded"]
  /\ UNCHANGED <<stored, callVars>>

(* Mutant of LoadForStatus: any text is taken for a status.                *)
LoadForStatusUnchecked(c) ==
  /\ at[c] = "allowed" /\ doing[c] = "set_status"
  /\ copy' = [copy EXCEPT ![c] = stored[target[c]]]
  /\ at' = [at EXCEPT ![c] = IF copy'[c] = None THEN "refused" ELSE "loaded"]
  /\ UNCHANGED <<stored, callVars>>

(* set_status: 400 for anything else than a status, 404 without a row.     *)
LoadForStatus(c) ==
  /\ at[c] = "allowed" /\ doing[c] = "set_status"
  /\ IF body[c].status \notin Status \/ stored[target[c]] = None
     THEN /\ at' = [at EXCEPT ![c] = "refused"]
          /\ UNCHANGED copy
     ELSE /\ at' = [at EXCEPT ![c] = "loaded"]
          /\ copy' = [copy EXCEPT ![c] = stored[target[c]]]
  /\ UNCHANGED <<stored, callVars>>

(* Mutant of Update: every column of the copy is written back.             *)
UpdateAll(old, loaded, new) == new @@ loaded

(* UPDATE of the columns whose new value is not the one that was loaded.   *)
Update(old, loaded, new) ==
  [column \in DOMAIN old |->
     IF column \in DOMAIN new /\ new[column] # loaded[column]
     THEN new[column]
     ELSE old[column]]

(* The rest of update_content or set_status, to the end of                 *)
(* _touch_and_commit.                                                      *)
TouchAndCommit(c) ==
  /\ at[c] = "loaded"
  /\ stored' = [stored EXCEPT ![target[c]] = Update(@, copy[c], body[c])]
  /\ at' = [at EXCEPT ![c] = "answered"]
  /\ UNCHANGED <<callVars, copy>>

(* The process or the database fails, before the commit.                   *)
Abort(c) ==
  /\ at[c] \in {"allowed", "loaded"}
  /\ at' = [at EXCEPT ![c] = "refused"]
  /\ UNCHANGED <<stored, callVars, copy>>

Next ==
  \E c \in Call :
    \/ Receive(c)
    \/ Create(c)
    \/ LoadForEdit(c)
    \/ LoadForStatus(c)
    \/ TouchAndCommit(c)
    \/ Abort(c)

Spec == Init /\ [][Next]_vars

-----------------------------------------------------------------------------
(* An edit that read its row before it went live.                          *)
LateEdit(c, q) ==
  /\ at[c] = "loaded" /\ doing[c] = "edit" /\ target[c] = q
  /\ copy[c].status # "live"

(* "Live requests are read-only" (service.py:44), but for the edits that   *)
(* had read the row before: while it stays live nothing else changes what  *)
(* it says.                                                                *)
LiveIsReadOnly ==
  [][\A q \in Row :
       (stored[q] # None /\ stored[q].status = "live"
          /\ stored'[q].status = "live"
          /\ \A c \in Call : ~LateEdit(c, q)) =>
         stored'[q] = stored[q]]_vars

(* Edits and changes of status that overlap do not undo each other: a step *)
(* that changes the status leaves the text alone and is the commit of a    *)
(* call that asked for that status; one that changes the text leaves the   *)
(* status alone.                                                           *)
StatusAndTextAreApart ==
  [][\A q \in Row : (stored[q] # None /\ stored'[q] # stored[q]) =>
       IF stored'[q].status = stored[q].status
       THEN \E c \in Call : doing[c] = "edit" /\ target[c] = q /\ at'[c] # at[c]
       ELSE /\ \A column \in ContentColumn : stored'[q][column] = stored[q][column]
            /\ \E c \in Call : /\ doing[c] = "set_status" /\ target[c] = q
                               /\ at'[c] # at[c] /\ body[c].status = stored'[q].status]_vars

(* Scopes are a tree, in which a grant covers itself and what is below it: *)
(* nobody else's call gets as far as the table.                            *)
CoveredBy(granted, required) ==
  \/ granted = <<"*">>
  \/ granted = required
  \/ granted = <<"tools">> /\ Head(required) = "tools"

OnlyTheGranted ==
  \A c \in Call :
    at[c] \in {"allowed", "loaded", "answered"} =>
      \E granted \in claims[c] : CoveredBy(granted, RequiredScope[doing[c]])
=============================================================================
