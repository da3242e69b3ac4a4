-------------------------- MODULE ApiProcessProofs --------------------------
(***************************************************************************)
(* Proofs about ApiProcess, for any number of calls, connections and       *)
(* iterations, whatever the calls are sent and whatever scopes they have.  *)
(*                                                                         *)
(* A step concerns one call, so the inductive invariant is one about a     *)
(* call, and a step has to keep it for the call it is about.               *)
(***************************************************************************)
EXTENDS ApiProcess, FiniteSetTheorems, TLAPS

(* Where a chat is from its first statement to its response, and where it  *)
(* is while its session may be rolled back.                                *)
InLoop == {"asking", "tools", "logging", "looped"}
Chatting == InLoop \cup {"committed", "counted"}
Active == Chatting \cup {"arrived", "rating"}

(* How far a call is tells what it has done ...                            *)
Progress(c) ==
  /\ at[c] = "new" => body[c] = NoBody
  /\ at[c] \in {"new", "arrived"} => replies[c] = 0 /\ last[c] = NoResult
  /\ at[c] = "asking" => replies[c] < MaxToolIterations
  /\ at[c] \in Chatting => IsChat(c)
  /\ at[c] \in {"committed", "counted"} => c \in stored

(* ... and which token, connection and tool result it has.                 *)
Holdings(c) ==
  /\ at[c] \in Active => token[c].left > 0
  /\ at[c] \in Active \cup {"new"} => ~lost[c]
  /\ at[c] \in InLoop => conn[c] \/ orphan[c]
  /\ at[c] = "logging" =>
       last[c] = ExecuteTool(reply[c].tool, token[c].scopes, settings.wms)
  /\ \A e \in reached :
       e[1] = c => at[c] \in Chatting /\ token[c].scopes \cap Covering[e[2]] # {}

(* A rating has ids that somebody was given; one that failed with a        *)
(* connection would not have been taken by the table.                      *)
RatingIsSound(c) ==
  LET b == body[c] IN
  b.path = "feedback" =>
    /\ {b.message, b.conversation} \subseteq announced \cup {None}
    /\ None \notin {b.message, b.conversation} /\ at[c] \in {"refused", "failed"} /\ ~lost[c]
         => ~Storable(b)

(* NoReplyIsLostToThePool for one call.                                    *)
ReplyIsKept(c) == at[c] = "failed" /\ lost[c] => replies[c] = 0 \/ c \in stored

CallInv(c) == Progress(c) /\ Holdings(c) /\ RatingIsSound(c) /\ ReplyIsKept(c)

IndInv == TypeOK /\ \A c \in Call : CallInv(c)

(* Where a call of the stub is tells how many replies it has had and which *)
(* result it goes on with.                                                 *)
Usable == {"renamed", "NO_DATA", "UPSTREAM_ERROR", "SUCCESS"}

StubAsking(c) ==
  at[c] = "asking" =>
    \/ replies[c] = 0 /\ last[c] = NoResult
    \/ replies[c] = 1 /\ last[c] \in Usable

StubCalling(c) ==
  at[c] = "tools" =>
    /\ replies[c] = 1
    /\ \/ reply[c].tool = "rename_conversation"
       \/ /\ reply[c].tool = "get_inbound_count"
          /\ ScopeGrants(token[c].scopes, WmsInbound)

StubLogging(c) == at[c] = "logging" => replies[c] = 1 /\ last[c] \in Usable

StubSettled(c) ==
  at[c] \in {"looped", "committed", "counted"} /\ ~orphan[c] =>
    reply[c].tool = NoTool /\ reply[c].says # "an unknown number"

StubCallInv(c) ==
  replies[c] <= 2 /\ StubAsking(c) /\ StubCalling(c) /\ StubLogging(c) /\ StubSettled(c)

StubInv == settings.stub => \A c \in Call : StubCallInv(c)

-----------------------------------------------------------------------------
(* Scopes. *)

(* A granted text that is above a tool's scope, or is it, covers the tool's *)
(* system in the tree scopes form: scope_grants takes no prefix that is one *)
(* only as text.                                                           *)
LEMMA WmsCovered ==
  ASSUME NEW scopes \in SUBSET Seq(STRING), ScopeGrants(scopes, WmsInbound)
  PROVE  scopes \cap Covering["wms"] # {}
<1>1. PICK granted \in scopes : Grants(granted, WmsInbound)
  BY DEF ScopeGrants
<1>2. CASE granted = <<"*">> \/ granted = WmsInbound
  BY <1>1, <1>2 DEF Covering, WmsInbound
<1>3. CASE IsPrefixOf(Append(granted, "."), WmsInbound)
  <2> DEFINE n == Len(granted)
             s == Append(granted, ".")
  <2>1. granted \in Seq(STRING) /\ n \in Nat /\ Len(s) = n + 1 /\ s[n + 1] = "."
    BY <1>1
  <2>2. n + 1 <= 4 /\ SubSeq(WmsInbound, 1, n + 1) = s
    BY <1>3, <2>1 DEF IsPrefixOf, WmsInbound
  <2> HIDE DEF n, s
  <2>3. \A i \in 1..(n + 1) : s[i] = WmsInbound[i]
    BY <2>1, <2>2 DEF WmsInbound
  <2>4. n = 1
    <3>1. WmsInbound[n + 1] = "."
      BY <2>1, <2>3
    <3>2. n \in {0, 1, 2, 3}
      BY <2>1, <2>2
    <3>3. WmsInbound[1] # "." /\ WmsInbound[3] # "." /\ WmsInbound[4] # "."
      BY DEF WmsInbound
    <3> QED
      BY <3>1, <3>2, <3>3
  <2>5. granted[1] = "wms"
    BY <2>1, <2>3, <2>4 DEF WmsInbound, n, s
  <2>6. granted = <<"wms">>
    BY <2>1, <2>4, <2>5 DEF n
  <2> QED
    BY <1>1, <2>6 DEF Covering
<1> QED
  BY <1>1, <1>2, <1>3 DEF Grants

LEMMA OdooCovered ==
  ASSUME NEW scopes \in SUBSET Seq(STRING), ScopeGrants(scopes, Odoo)
  PROVE  scopes \cap Covering["odoo"] # {}
<1>1. PICK granted \in scopes : Grants(granted, Odoo)
  BY DEF ScopeGrants
<1>2. CASE granted = <<"*">> \/ granted = Odoo
  BY <1>1, <1>2 DEF Covering, Odoo
<1>3. CASE IsPrefixOf(Append(granted, "."), Odoo)
  <2> DEFINE n == Len(granted)
             s == Append(granted, ".")
  <2>1. granted \in Seq(STRING) /\ n \in Nat /\ Len(s) = n + 1 /\ s[n + 1] = "."
    BY <1>1
  <2>2. n + 1 <= 1 /\ SubSeq(Odoo, 1, n + 1) = s
    BY <1>3, <2>1 DEF IsPrefixOf, Odoo
  <2>3. \A i \in 1..(n + 1) : s[i] = Odoo[i]
    BY <2>1, <2>2 DEF Odoo
  <2> QED
    BY <2>1, <2>2, <2>3 DEF Odoo
<1> QED
  BY <1>1, <1>2, <1>3 DEF Grants

-----------------------------------------------------------------------------
(* The pool. *)

(* Whoever takes a connection while one is free leaves the pool within its *)
(* size; to give one back, or nothing, does so anyhow.                     *)
LEMMA PoolKept ==
  ASSUME TypeOK, NEW c \in Call,
         conn' \in [Call -> BOOLEAN],
         \A d \in Call \ {c} : conn'[d] = conn[d],
         conn'[c] => conn[c] \/ Free
  PROVE  Cardinality({d \in Call : conn'[d]}) <= PoolSize
<1> DEFINE Before == {d \in Call : conn[d]}
           After == {d \in Call : conn'[d]}
<1>1. IsFiniteSet(Before) /\ IsFiniteSet(Call) /\ PoolSize \in Nat
  BY ApiProcessAssumption, FS_Subset
<1>2. Cardinality(Before) \in Nat /\ Cardinality(Before) <= PoolSize
  BY <1>1, FS_CardinalityType DEF TypeOK
<1>3. CASE After \subseteq Before
  <2>1. Cardinality(After) <= Cardinality(Before) /\ Cardinality(After) \in Nat
    BY <1>1, <1>3, FS_Subset, FS_CardinalityType
  <2> QED
    BY <1>1, <1>2, <2>1
<1>4. CASE ~(After \subseteq Before)
  <2>1. c \notin Before /\ After = Before \cup {c} /\ Free
    BY <1>4
  <2>2. Cardinality(After) = Cardinality(Before) + 1
    BY <1>1, <2>1, FS_AddElement
  <2> QED
    BY <1>1, <1>2, <2>1, <2>2 DEF Free
<1> QED
  BY <1>3, <1>4

-----------------------------------------------------------------------------
(* Steps. *)

LEMMA InitIndInv == Init => IndInv
<1> SUFFICES ASSUME Init PROVE IndInv
  OBVIOUS
<1>1. Cardinality({c \in Call : conn[c]}) <= PoolSize
  <2>1. {c \in Call : conn[c]} = {}
    BY DEF Init
  <2>2. Cardinality({c \in Call : conn[c]}) = 0
    BY <2>1, FS_EmptySet
  <2> QED
    BY <2>2, ApiProcessAssumption
<1>2. NoReply \in [tool : ToolName \cup {NoTool}, says : Text]
  BY DEF NoReply, Says, Text
<1>3. TypeOK
  BY <1>1, <1>2, ApiProcessAssumption DEF Init, TypeOK, Result
<1>4. ASSUME NEW c \in Call PROVE CallInv(c)
  <2>1. /\ at[c] = "new" /\ body[c] = NoBody /\ replies[c] = 0
        /\ last[c] = NoResult /\ ~lost[c] /\ reached = {}
    BY DEF Init
  <2>2. Progress(c)
    BY <2>1 DEF Progress, Chatting, InLoop
  <2>3. Holdings(c)
    BY <2>1 DEF Holdings, Active, Chatting, InLoop
  <2>4. RatingIsSound(c) /\ ReplyIsKept(c)
    BY <2>1 DEF RatingIsSound, ReplyIsKept, NoBody
  <2> QED
    BY <2>2, <2>3, <2>4 DEF CallInv
<1> QED
  BY <1>3, <1>4 DEF IndInv

(* What a step of one call leaves to the other calls.                      *)
OthersStay(c) ==
  /\ settings' = settings
  /\ \A d \in Call \ {c} :
       /\ at'[d] = at[d] /\ body'[d] = body[d] /\ token'[d] = token[d]
       /\ reply'[d] = reply[d] /\ replies'[d] = replies[d] /\ last'[d] = last[d]
       /\ conn'[d] = conn[d] /\ orphan'[d] = orphan[d] /\ lost'[d] = lost[d]
  /\ stored \subseteq stored' /\ announced \subseteq announced'
  /\ \A e \in reached' : e[1] = c \/ e \in reached

(* Every step is one of some call and leaves the others alone.             *)
StepOf(c) == Arrive(c) \/ Serve(c) \/ Disconnect(c) \/ Collect(c)

LEMMA EndIsLocal ==
  ASSUME IndInv, NEW c \in Call, NEW how, End(c, how), replies' = replies,
         lost' = lost \/ lost' = [lost EXCEPT ![c] = TRUE],
         stored' = stored, announced \subseteq announced'
  PROVE  OthersStay(c)
BY DEF End, OthersStay, IndInv, TypeOK

LEMMA StepsAreLocal ==
  ASSUME IndInv, NEW c \in Call, StepOf(c)
  PROVE  OthersStay(c)
<1> USE DEF loopVars, storeVars, entryVars
<1>1. CASE \/ NotFound(c) \/ Vanish(c) \/ Raise(c) \/ AnswerTools(c) \/ AnswerTitle(c)
           \/ RefuseRating(c) \/ CommitRating(c)
  <2>1. PICK how : End(c, how) /\ UNCHANGED <<replies, lost, storeVars>>
    BY <1>1 DEF NotFound, Vanish, Raise, AnswerTools, AnswerTitle, RefuseRating, CommitRating
  <2> QED
    BY <2>1, EndIsLocal
<1>2. CASE Respond(c)
  BY <1>2, EndIsLocal DEF Respond
<1>3. CASE PoolTimeout(c)
  <2>1. PICK how : End(c, how) /\ lost' = [lost EXCEPT ![c] = TRUE]
                     /\ UNCHANGED <<replies, storeVars>>
    BY <1>3 DEF PoolTimeout
  <2> QED
    BY <2>1, EndIsLocal
<1>4. CASE Disconnect(c)
  <2>1. CASE at[c] \in {"asking", "tools", "logging"}
    BY <1>4, <2>1 DEF Disconnect, OthersStay, IndInv, TypeOK
  <2>2. CASE at[c] \notin {"asking", "tools", "logging"}
    BY <1>4, <2>2, EndIsLocal DEF Disconnect
  <2> QED
    BY <2>1, <2>2
<1>5. CASE InsertRating(c)
  <2> DEFINE Taken == TableAccepts(body[c].rating, body[c].reason, body[c].message, stored,
                                body[c].conversation, stored)
  <2>1. CASE Taken
    BY <1>5, <2>1 DEF InsertRating, OthersStay, IndInv, TypeOK
  <2>2. CASE ~Taken
    BY <1>5, <2>2, EndIsLocal DEF InsertRating
  <2> QED
    BY <2>1, <2>2
<1>6. CASE Arrive(c) \/ Collect(c) \/ Prepare(c) \/ Commit(c) \/ Count(c)
  BY <1>6 DEF Arrive, Collect, Prepare, Commit, Count, OthersStay, IndInv, TypeOK
<1>7. CASE Ask(c)
  BY <1>7 DEF Ask, OthersStay, IndInv, TypeOK
<1>8. CASE RunRename(c) \/ Log(c)
  BY <1>8 DEF RunRename, Log, Iterate, OthersStay, IndInv, TypeOK
<1>9. CASE RunTool(c)
  BY <1>9 DEF RunTool, OthersStay, IndInv, TypeOK
<1> QED
  BY <1>1, <1>2, <1>3, <1>4, <1>5, <1>6, <1>7, <1>8, <1>9 DEF StepOf, Serve

LEMMA OthersKeep ==
  ASSUME IndInv, NEW c \in Call, OthersStay(c), NEW d \in Call, d # c
  PROVE  CallInv(d)'
<1>1. CallInv(d)
  BY DEF IndInv
<1>2. Progress(d)'
  BY <1>1 DEF OthersStay, CallInv, Progress, IsChat
<1>3. Holdings(d)'
  BY <1>1 DEF OthersStay, CallInv, Holdings
<1>4. RatingIsSound(d)'
  BY <1>1 DEF OthersStay, CallInv, RatingIsSound
<1>5. ReplyIsKept(d)'
  BY <1>1 DEF OthersStay, CallInv, ReplyIsKept
<1> QED
  BY <1>2, <1>3, <1>4, <1>5 DEF CallInv

(* A call that is over has nothing left to lose but its rating and its     *)
(* reply.                                                                  *)
LEMMA EndKeeps ==
  ASSUME IndInv, NEW c \in Call, NEW how \in Ended, End(c, how),
         replies' = replies, lost' \in [Call -> BOOLEAN],
         \A d \in Call \ {c} : lost'[d] = lost[d],
         stored' = stored, announced \subseteq announced', announced' \subseteq stored,
         RatingIsSound(c)', ReplyIsKept(c)'
  PROVE  IndInv'
<1> USE DEF End
<1>1. conn' \in [Call -> BOOLEAN]
  BY DEF IndInv, TypeOK
<1>2. (\A d \in Call \ {c} : conn'[d] = conn[d]) /\ (conn'[c] => conn[c])
  BY DEF IndInv, TypeOK
<1>3. Cardinality({d \in Call : conn'[d]}) <= PoolSize
  BY <1>1, <1>2, PoolKept DEF IndInv
<1>4. NoReply \in [tool : ToolName \cup {NoTool}, says : Text]
  BY DEF NoReply, Says, Text
<1>5. body' \in [Call -> Chats \cup Ratings \cup Others \cup {NoBody}]
  BY DEF IndInv, TypeOK
<1>6. token' \in [Call -> Token \cup {NoToken}]
  BY DEF IndInv, TypeOK
<1>7. TypeOK'
  BY <1>1, <1>3, <1>4, <1>5, <1>6 DEF IndInv, TypeOK, Result
<1>8. OthersStay(c)
  BY DEF OthersStay, IndInv, TypeOK
<1>9. CallInv(c)'
  <2>1. at'[c] = how /\ \A e \in reached' : e[1] # c
    BY DEF IndInv, TypeOK
  <2>2. Progress(c)'
    BY <2>1 DEF Progress, Ended, Chatting, InLoop
  <2>3. Holdings(c)'
    BY <2>1 DEF Holdings, Ended, Active, Chatting, InLoop
  <2> QED
    BY <2>2, <2>3 DEF CallInv
<1> QED
  BY <1>7, <1>8, <1>9, OthersKeep DEF IndInv

(* Ends that are not for want of a connection, of calls that were alive.   *)
LEMMA LiveEndKeeps ==
  ASSUME IndInv, NEW c \in Call, NEW how \in Ended, End(c, how),
         at[c] \in Active, UNCHANGED <<replies, lost, stored>>,
         announced \subseteq announced', announced' \subseteq stored,
         body[c].path = "feedback" /\ how \in {"refused", "failed"} =>
             LET b == body[c] IN
             ~Storable(b) \/ None \in {b.message, b.conversation}
  PROVE  IndInv'
<1>1. ~lost[c] /\ RatingIsSound(c)
  BY DEF IndInv, CallInv, Holdings
<1>2. at'[c] = how
  BY DEF End, IndInv, TypeOK
<1>3. ReplyIsKept(c)'
  BY <1>1 DEF ReplyIsKept
<1>4. RatingIsSound(c)'
  <2>1. body'[c] = body[c] \/ body'[c] = NoBody
    BY DEF End, IndInv, TypeOK
  <2>2. CASE body'[c] = NoBody
    BY <2>2 DEF RatingIsSound, NoBody
  <2>3. CASE body'[c] = body[c]
    BY <1>1, <1>2, <2>3 DEF RatingIsSound
  <2> QED
    BY <2>1, <2>2, <2>3
<1> QED
  BY <1>3, <1>4, EndKeeps DEF IndInv, TypeOK

LEMMA StepKeeps ==
  ASSUME IndInv, NEW c \in Call, OthersStay(c), TypeOK', CallInv(c)'
  PROVE  IndInv'
BY OthersKeep DEF IndInv

(* Ends of chats. *)
LEMMA ChatsEnd ==
  ASSUME IndInv, NEW c \in Call, IsChat(c), at[c] \in Active,
         NEW how \in Ended, End(c, how), UNCHANGED <<replies, lost, stored>>,
         announced \subseteq announced', announced' \subseteq stored
  PROVE  IndInv'
<1>1. body[c].path # "feedback"
  BY DEF IsChat
<1> QED
  BY <1>1, LiveEndKeeps

LEMMA EndsKeep ==
  ASSUME IndInv, NEW c \in Call,
         NotFound(c) \/ Vanish(c) \/ Raise(c) \/ Respond(c)
  PROVE  IndInv'
<1>1. announced \subseteq stored
  BY DEF IndInv, TypeOK
<1>2. Progress(c)
  BY DEF IndInv, CallInv
<1>3. CASE NotFound(c)
  BY <1>1, <1>3, ChatsEnd DEF NotFound, Active, Ended, storeVars
<1>4. CASE Vanish(c)
  BY <1>1, <1>2, <1>4, ChatsEnd
     DEF Vanish, Progress, Active, Chatting, InLoop, Ended, storeVars
<1>5. CASE Raise(c)
  <2>1. IsChat(c) /\ at[c] \in Active
    BY <1>2, <1>5 DEF Raise, Progress, Active, Chatting, InLoop
  <2> DEFINE how == IF orphan[c] THEN "gone" ELSE "failed"
  <2>2. End(c, how) /\ how \in Ended /\ UNCHANGED <<replies, lost, storeVars>>
    BY <1>5 DEF Raise, Ended
  <2> HIDE DEF how
  <2> QED
    BY <1>1, <2>1, <2>2, ChatsEnd DEF storeVars
<1>6. CASE Respond(c)
  <2>1. IsChat(c) /\ at[c] \in Active /\ c \in stored
    BY <1>2, <1>6 DEF Respond, Progress, Active, Chatting
  <2> QED
    BY <1>1, <1>6, <2>1, ChatsEnd DEF Respond, Ended
<1> QED
  BY <1>3, <1>4, <1>5, <1>6

LEMMA OtherEndsKeep ==
  ASSUME IndInv, NEW c \in Call,
         AnswerTools(c) \/ AnswerTitle(c) \/ RefuseRating(c) \/ CommitRating(c)
  PROVE  IndInv'
<1>1. announced \subseteq stored
  BY DEF IndInv, TypeOK
<1>2. CASE AnswerTools(c)
  BY <1>1, <1>2, LiveEndKeeps DEF AnswerTools, Active, Ended, storeVars
<1>3. CASE AnswerTitle(c)
  BY <1>1, <1>3, LiveEndKeeps DEF AnswerTitle, Active, Ended, storeVars
<1>4. CASE RefuseRating(c)
  <2>1. ~Storable(body[c])
    BY <1>4 DEF RefuseRating, Accepted, ServiceAccepts, Storable, TableAccepts, ListedReason, Null
  <2> QED
    BY <1>1, <1>4, <2>1, LiveEndKeeps DEF RefuseRating, Active, Ended, storeVars
<1>5. CASE CommitRating(c)
  BY <1>1, <1>5, LiveEndKeeps DEF CommitRating, Active, Ended, storeVars
<1> QED
  BY <1>2, <1>3, <1>4, <1>5

LEMMA ArriveKeeps ==
  ASSUME IndInv, NEW c \in Call, Arrive(c)
  PROVE  IndInv'
<1> USE DEF loopVars, storeVars, entryVars
<1>1. CASE at' = [at EXCEPT ![c] = "refused"] /\ UNCHANGED entryVars
  <2>1. body[c] = NoBody /\ ~lost[c] /\ at[c] = "new" /\ \A e \in reached : e[1] # c
    BY DEF Arrive, IndInv, CallInv, Progress, Holdings, Active, Chatting, InLoop
  <2>2. OthersStay(c)
    BY StepsAreLocal DEF StepOf, Serve
  <2>3. TypeOK'
    BY <1>1 DEF Arrive, IndInv, TypeOK, Ended
  <2>4. CallInv(c)'
    BY <1>1, <2>1
       DEF Arrive, IndInv, TypeOK, CallInv, Progress, Holdings, RatingIsSound, ReplyIsKept,
           Active, Chatting, InLoop, NoBody
  <2> QED
    BY <2>2, <2>3, <2>4, StepKeeps
<1>2. ASSUME NEW t \in Minted, DecodeToken(t), token' = [token EXCEPT ![c] = t],
             NEW b \in Bodies(c), body' = [body EXCEPT ![c] = b],
             at' = [at EXCEPT ![c] = "arrived"]
      PROVE  IndInv'
  <2>1. t \in Token /\ t.left > 0
    BY <1>2, ApiProcessAssumption DEF Minted, EncodeToken, Token, DecodeToken
  <2>2. b \in Chats \cup Ratings \cup Others
    BY DEF Bodies
  <2>3. b.path = "feedback" => {b.message, b.conversation} \subseteq announced \cup {None}
    BY DEF Bodies, Chats, Others
  <2>4. /\ ~lost[c] /\ at[c] = "new" /\ replies[c] = 0 /\ last[c] = NoResult
        /\ \A e \in reached : e[1] # c
    BY DEF Arrive, IndInv, CallInv, Progress, Holdings, Active, Chatting, InLoop
  <2>5. OthersStay(c)
    BY StepsAreLocal DEF StepOf, Serve
  <2>6. TypeOK'
    BY <1>2, <2>1, <2>2 DEF Arrive, IndInv, TypeOK
  <2>7. Progress(c)'
    BY <1>2, <2>4 DEF Arrive, IndInv, TypeOK, Progress, Chatting, InLoop
  <2>8. Holdings(c)'
    BY <1>2, <2>1, <2>4 DEF Arrive, IndInv, TypeOK, Holdings, Active, Chatting, InLoop
  <2>9. RatingIsSound(c)' /\ ReplyIsKept(c)'
    BY <1>2, <2>3 DEF Arrive, IndInv, TypeOK, RatingIsSound, ReplyIsKept
  <2> QED
    BY <2>5, <2>6, <2>7, <2>8, <2>9, StepKeeps DEF CallInv
<1> QED
  BY <1>1, <1>2 DEF Arrive

LEMMA PrepareKeeps ==
  ASSUME IndInv, NEW c \in Call, Prepare(c)
  PROVE  IndInv'
<1> USE DEF loopVars, storeVars, entryVars
<1>1. conn' \in [Call -> BOOLEAN]
  BY DEF Prepare, IndInv, TypeOK
<1>2. Cardinality({d \in Call : conn'[d]}) <= PoolSize
  BY <1>1, PoolKept DEF Prepare, IndInv, TypeOK
<1>3. TypeOK'
  BY <1>1, <1>2 DEF Prepare, IndInv, TypeOK
<1>4. OthersStay(c)
  BY StepsAreLocal DEF StepOf, Serve
<1>5. Progress(c)'
  BY ApiProcessAssumption
     DEF Prepare, IndInv, TypeOK, CallInv, Progress, Chatting, InLoop, IsChat
<1>6. Holdings(c)'
  BY DEF Prepare, IndInv, TypeOK, CallInv, Holdings, Active, Chatting, InLoop
<1>7. RatingIsSound(c)' /\ ReplyIsKept(c)'
  BY DEF Prepare, IndInv, TypeOK, RatingIsSound, ReplyIsKept, IsChat
<1> QED
  BY <1>3, <1>4, <1>5, <1>6, <1>7, StepKeeps DEF CallInv

LEMMA TokenScopes ==
  ASSUME TypeOK, NEW c \in Call
  PROVE  token[c].scopes \in SUBSET Seq(STRING)
<1>1. CASE token[c] \in Token
  <2>1. token[c].scopes \in AllowedScopes
    BY <1>1 DEF Token
  <2> QED
    BY <2>1, ApiProcessAssumption
<1>2. CASE token[c] = NoToken
  BY <1>2 DEF NoToken
<1> QED
  BY <1>1, <1>2 DEF TypeOK

(* What the model may say; only the stub asks the warehouse, and only for  *)
(* those who may know.                                                     *)
LEMMA RepliesTyped ==
  ASSUME TypeOK, NEW c \in Call, NEW r \in Replies(c), r # WarehouseDown
  PROVE  /\ r \in [tool : ToolName \cup {NoTool}, says : Text]
         /\ r = Says("revenue") => ScopeGrants(token[c].scopes, Odoo)
<1> DEFINE q == body[c].question
           visible == Offered(c)
           allowed == token[c].scopes
<1>1. \A name \in ToolName : CallsTool(name) \in [tool : ToolName \cup {NoTool}, says : Text]
  BY DEF CallsTool, Text
<1>2. \A text \in Text : Says(text) \in [tool : ToolName \cup {NoTool}, says : Text]
  BY DEF Says
<1>3. \A name : CallsTool(name) # Says("revenue")
  BY DEF CallsTool, Says
<1>4. \A text : Says(text) = Says("revenue") => text = "revenue"
  BY DEF Says
<1>5. CASE ~settings.stub
  <2>1. r = Says("text") \/ \E name \in ToolName : r = CallsTool(name)
    BY <1>5 DEF Replies
  <2> QED
    BY <1>1, <1>2, <1>3, <1>4, <2>1 DEF Text
<1>6. CASE settings.stub /\ last[c] = NoResult
  <2>1. r \in FirstReplies(q, visible, allowed)
    BY <1>6 DEF Replies, StubReplies
  <2>2. \/ r = CallsTool("rename_conversation")
        \/ r = CallsTool("get_inbound_count")
        \/ r = Says("canned")
        \/ r = Says("no answer")
        \/ r = Says("revenue") /\ ScopeGrants(allowed, Odoo)
    BY <2>1 DEF FirstReplies
  <2> QED
    BY <1>1, <1>2, <1>3, <1>4, <2>2 DEF Text, ToolName, AllTools
<1>7. CASE settings.stub /\ last[c] # NoResult
  <2>1. r = Says(Answer[last[c]])
    BY <1>7 DEF Replies, StubReplies
  <2>2. last[c] \in DOMAIN Answer
    BY <1>7 DEF TypeOK, Result
  <2>3. Answer[last[c]] \in Text
    BY <2>2 DEF Text
  <2>4. last[c] \in {"renamed", "NO_DATA", "UPSTREAM_ERROR", "SUCCESS", "error"}
    BY <2>2 DEF Answer
  <2>5. /\ Answer["renamed"] # "revenue" /\ Answer["NO_DATA"] # "revenue"
        /\ Answer["UPSTREAM_ERROR"] # "revenue" /\ Answer["SUCCESS"] # "revenue"
        /\ Answer["error"] # "revenue"
    BY DEF Answer
  <2> QED
    BY <1>2, <1>4, <2>1, <2>3, <2>4, <2>5
<1> QED
  BY <1>5, <1>6, <1>7

LEMMA AskKeeps ==
  ASSUME IndInv, NEW c \in Call, Ask(c)
  PROVE  IndInv'
<1> USE DEF loopVars, storeVars, entryVars
<1>1. PICK r \in Replies(c) \ {WarehouseDown} :
        /\ reply' = [reply EXCEPT ![c] = r]
        /\ at' = [at EXCEPT ![c] = IF r.tool # NoTool THEN "tools" ELSE "looped"]
        /\ reached' = IF r = Says("revenue") THEN reached \cup {<<c, "odoo">>} ELSE reached
  BY DEF Ask
<1>2. /\ r \in [tool : ToolName \cup {NoTool}, says : Text]
      /\ r = Says("revenue") => ScopeGrants(token[c].scopes, Odoo)
  BY <1>1, RepliesTyped DEF IndInv
<1>3. Progress(c) /\ Holdings(c) /\ RatingIsSound(c) /\ ReplyIsKept(c) /\ at[c] = "asking"
  BY DEF IndInv, CallInv, Ask
<1>4. replies' = [replies EXCEPT ![c] = replies[c] + 1] /\ replies[c] + 1 \in 0..MaxToolIterations
  BY <1>3, ApiProcessAssumption DEF IndInv, TypeOK, Ask, Progress
<1>5. at'[c] \in {"tools", "looped"}
  BY <1>1 DEF IndInv, TypeOK
<1>6. TypeOK'
  BY <1>1, <1>2, <1>4 DEF Ask, IndInv, TypeOK
<1>7. OthersStay(c)
  BY StepsAreLocal DEF StepOf, Serve
<1>8. Progress(c)'
  BY <1>3, <1>5 DEF Ask, Progress, Chatting, InLoop, IsChat
<1>9. Holdings(c)'
  <2>1. token[c].scopes \in SUBSET Seq(STRING)
    BY TokenScopes DEF IndInv
  <2>2. r = Says("revenue") => token[c].scopes \cap Covering["odoo"] # {}
    BY <1>2, <2>1, OdooCovered
  <2>3. \A e \in reached' : e[1] = c => at'[c] \in Chatting /\ token[c].scopes \cap Covering[e[2]] # {}
    BY <1>1, <1>3, <1>5, <2>2 DEF Holdings, Chatting, InLoop
  <2> QED
    BY <1>3, <1>5, <2>3 DEF Ask, Holdings, Active, Chatting, InLoop
<1>10. RatingIsSound(c)' /\ ReplyIsKept(c)'
  BY <1>3, <1>5 DEF Ask, Progress, RatingIsSound, ReplyIsKept, IsChat, Chatting, InLoop
<1> QED
  BY <1>6, <1>7, <1>8, <1>9, <1>10, StepKeeps DEF CallInv

LEMMA RunRenameKeeps ==
  ASSUME IndInv, NEW c \in Call, RunRename(c)
  PROVE  IndInv'
<1> USE DEF loopVars, storeVars, entryVars, Iterate
<1>1. Progress(c) /\ Holdings(c) /\ RatingIsSound(c) /\ ReplyIsKept(c) /\ at[c] = "tools"
  BY DEF IndInv, CallInv, RunRename
<1>2. /\ at'[c] = IF replies[c] = MaxToolIterations THEN "looped" ELSE "asking"
      /\ replies[c] \in 0..MaxToolIterations
  BY DEF IndInv, TypeOK, RunRename
<1>3. TypeOK'
  BY DEF RunRename, IndInv, TypeOK, Result, Answer
<1>4. OthersStay(c)
  BY StepsAreLocal DEF StepOf, Serve
<1>5. Progress(c)'
  BY <1>1, <1>2, ApiProcessAssumption DEF RunRename, Progress, Chatting, InLoop, IsChat
<1>6. Holdings(c)'
  BY <1>1, <1>2 DEF RunRename, Holdings, Active, Chatting, InLoop
<1>7. RatingIsSound(c)' /\ ReplyIsKept(c)'
  BY <1>1, <1>2 DEF RunRename, Progress, RatingIsSound, ReplyIsKept, IsChat, Chatting, InLoop
<1> QED
  BY <1>3, <1>4, <1>5, <1>6, <1>7, StepKeeps DEF CallInv

(* The executor reaches the WMS for nobody without the scope of the tool.  *)
LEMMA ToolResults ==
  ASSUME NEW name, NEW allowed, NEW configured \in BOOLEAN
  PROVE  LET result == ExecuteTool(name, allowed, configured) IN
         /\ result \in Result
         /\ result # "error" => ScopeGrants(allowed, WmsInbound)
         /\ name = "get_inbound_count" /\ ScopeGrants(allowed, WmsInbound) => result # "error"
BY DEF ExecuteTool, ToolScopes, GetInboundCount, Envelope, Result, Answer

LEMMA RunToolKeeps ==
  ASSUME IndInv, NEW c \in Call, RunTool(c)
  PROVE  IndInv'
<1> USE DEF loopVars, storeVars, entryVars
<1> DEFINE result == ExecuteTool(reply[c].tool, token[c].scopes, settings.wms)
<1>1. Progress(c) /\ Holdings(c) /\ RatingIsSound(c) /\ ReplyIsKept(c) /\ at[c] = "tools"
  BY DEF IndInv, CallInv, RunTool
<1>2. at' = [at EXCEPT ![c] = "logging"] /\ last' = [last EXCEPT ![c] = result]
  BY DEF RunTool
<1>3. at'[c] = "logging" /\ last'[c] = result
  BY <1>2 DEF IndInv, TypeOK
<1>4. reached' = IF result = "error" THEN reached ELSE reached \cup {<<c, "wms">>}
  BY <1>3 DEF RunTool
<1>5. settings.wms \in BOOLEAN
  BY DEF IndInv, TypeOK
<1>6. result \in Result /\ (result # "error" => ScopeGrants(token[c].scopes, WmsInbound))
  BY <1>5, ToolResults
<1>7. result' = result
  BY DEF RunTool
<1> HIDE DEF result
<1>8. TypeOK'
  BY <1>2, <1>4, <1>6 DEF RunTool, IndInv, TypeOK
<1>9. OthersStay(c)
  BY StepsAreLocal DEF StepOf, Serve
<1>10. Progress(c)'
  BY <1>1, <1>3 DEF RunTool, Progress, Chatting, InLoop, IsChat
<1>11. Holdings(c)'
  <2>1. token[c].scopes \in SUBSET Seq(STRING)
    BY TokenScopes DEF IndInv
  <2>2. result # "error" => token[c].scopes \cap Covering["wms"] # {}
    BY <1>6, <2>1, WmsCovered
  <2>3. \A e \in reached' : e[1] = c => at'[c] \in Chatting /\ token[c].scopes \cap Covering[e[2]] # {}
    BY <1>1, <1>3, <1>4, <2>2 DEF Holdings, Chatting, InLoop
  <2>4. last'[c] = ExecuteTool(reply'[c].tool, token'[c].scopes, settings'.wms)
    BY <1>3, <1>7 DEF RunTool, result
  <2> QED
    BY <1>1, <1>3, <2>3, <2>4 DEF RunTool, Holdings, Active, Chatting, InLoop
<1>12. RatingIsSound(c)' /\ ReplyIsKept(c)'
  BY <1>1, <1>3 DEF RunTool, Progress, RatingIsSound, ReplyIsKept, IsChat, Chatting, InLoop
<1> QED
  BY <1>8, <1>9, <1>10, <1>11, <1>12, StepKeeps DEF CallInv

LEMMA LogKeeps ==
  ASSUME IndInv, NEW c \in Call, Log(c)
  PROVE  IndInv'
<1> USE DEF loopVars, storeVars, entryVars, Iterate
<1>1. Progress(c) /\ Holdings(c) /\ RatingIsSound(c) /\ ReplyIsKept(c) /\ at[c] = "logging"
  BY DEF IndInv, CallInv, Log
<1>2. conn' \in [Call -> BOOLEAN]
  BY DEF Log, IndInv, TypeOK
<1>3. Cardinality({d \in Call : conn'[d]}) <= PoolSize
  BY <1>2, PoolKept DEF Log, IndInv, TypeOK
<1>4. /\ at'[c] \in {"looped", "asking"}
      /\ at'[c] = "asking" => replies[c] # MaxToolIterations
      /\ at' = [at EXCEPT ![c] = at'[c]]
      /\ replies' = replies /\ replies[c] \in 0..MaxToolIterations /\ conn'[c]
  BY DEF Log, IndInv, TypeOK
<1>5. TypeOK'
  BY <1>2, <1>3, <1>4 DEF Log, IndInv, TypeOK
<1>6. OthersStay(c)
  BY StepsAreLocal DEF StepOf, Serve
<1>7. Progress(c)'
  BY <1>1, <1>4, ApiProcessAssumption DEF Log, Progress, Chatting, InLoop, IsChat
<1>8. Holdings(c)'
  BY <1>1, <1>4 DEF Log, Holdings, Active, Chatting, InLoop
<1>9. RatingIsSound(c)' /\ ReplyIsKept(c)'
  BY <1>1, <1>4 DEF Log, Progress, RatingIsSound, ReplyIsKept, IsChat, Chatting, InLoop
<1> QED
  BY <1>5, <1>6, <1>7, <1>8, <1>9, StepKeeps DEF CallInv

LEMMA CommitKeeps ==
  ASSUME IndInv, NEW c \in Call, Commit(c)
  PROVE  IndInv'
<1> USE DEF loopVars, storeVars, entryVars
<1>1. Progress(c) /\ Holdings(c) /\ RatingIsSound(c) /\ ReplyIsKept(c) /\ at[c] = "looped"
  BY DEF IndInv, CallInv, Commit
<1>2. conn' \in [Call -> BOOLEAN]
  BY DEF Commit, IndInv, TypeOK
<1>3. Cardinality({d \in Call : conn'[d]}) <= PoolSize
  BY <1>2, PoolKept DEF Commit, IndInv, TypeOK
<1>4. at'[c] = "committed" /\ c \in stored'
  BY DEF Commit, IndInv, TypeOK
<1>5. TypeOK'
  BY <1>2, <1>3 DEF Commit, IndInv, TypeOK
<1>6. OthersStay(c)
  BY StepsAreLocal DEF StepOf, Serve
<1>7. Progress(c)'
  BY <1>1, <1>4 DEF Commit, Progress, Chatting, InLoop, IsChat
<1>8. Holdings(c)'
  BY <1>1, <1>4 DEF Commit, Holdings, Active, Chatting, InLoop
<1>9. RatingIsSound(c)' /\ ReplyIsKept(c)'
  BY <1>1, <1>4 DEF Commit, Progress, RatingIsSound, ReplyIsKept, IsChat, Chatting, InLoop
<1> QED
  BY <1>5, <1>6, <1>7, <1>8, <1>9, StepKeeps DEF CallInv

LEMMA CountKeeps ==
  ASSUME IndInv, NEW c \in Call, Count(c)
  PROVE  IndInv'
<1> USE DEF loopVars, storeVars, entryVars
<1>1. Progress(c) /\ Holdings(c) /\ RatingIsSound(c) /\ ReplyIsKept(c) /\ at[c] = "committed"
  BY DEF IndInv, CallInv, Count
<1>2. conn' \in [Call -> BOOLEAN]
  BY DEF Count, IndInv, TypeOK
<1>3. Cardinality({d \in Call : conn'[d]}) <= PoolSize
  BY <1>2, PoolKept DEF Count, IndInv, TypeOK
<1>4. at'[c] = "counted" /\ conn'[c]
  BY DEF Count, IndInv, TypeOK
<1>5. TypeOK'
  BY <1>2, <1>3 DEF Count, IndInv, TypeOK
<1>6. OthersStay(c)
  BY StepsAreLocal DEF StepOf, Serve
<1>7. Progress(c)'
  BY <1>1, <1>4 DEF Count, Progress, Chatting, InLoop, IsChat
<1>8. Holdings(c)'
  BY <1>1, <1>4 DEF Count, Holdings, Active, Chatting, InLoop
<1>9. RatingIsSound(c)' /\ ReplyIsKept(c)'
  BY <1>1, <1>4 DEF Count, Progress, RatingIsSound, ReplyIsKept, IsChat, Chatting, InLoop
<1> QED
  BY <1>5, <1>6, <1>7, <1>8, <1>9, StepKeeps DEF CallInv

LEMMA DisconnectKeeps ==
  ASSUME IndInv, NEW c \in Call, Disconnect(c)
  PROVE  IndInv'
<1> USE DEF loopVars, storeVars, entryVars
<1>1. Progress(c) /\ Holdings(c) /\ RatingIsSound(c) /\ ReplyIsKept(c)
  BY DEF IndInv, CallInv
<1>2. CASE at[c] \notin {"asking", "tools", "logging"}
  <2>1. IsChat(c) /\ at[c] \in Active /\ End(c, "gone")
    BY <1>2 DEF Disconnect, IsChat, Active, Chatting, InLoop
  <2> QED
    BY <2>1, ChatsEnd DEF Disconnect, Ended, IndInv, TypeOK
<1>3. CASE at[c] \in {"asking", "tools", "logging"}
  <2>1. /\ conn' = [conn EXCEPT ![c] = FALSE] /\ orphan' = [orphan EXCEPT ![c] = TRUE]
        /\ UNCHANGED <<settings, at, entryVars, reply, replies, last, lost, stored, announced, reached>>
    BY <1>3 DEF Disconnect
  <2>2. conn' \in [Call -> BOOLEAN]
    BY <2>1 DEF IndInv, TypeOK
  <2>3. Cardinality({d \in Call : conn'[d]}) <= PoolSize
    BY <2>1, <2>2, PoolKept DEF IndInv, TypeOK
  <2>4. orphan'[c]
    BY <2>1 DEF IndInv, TypeOK
  <2>5. TypeOK'
    BY <2>1, <2>2, <2>3 DEF IndInv, TypeOK
  <2>6. OthersStay(c)
    BY StepsAreLocal DEF StepOf, Serve
  <2>7. Progress(c)'
    BY <1>1, <2>1 DEF Progress, IsChat
  <2>8. Holdings(c)'
    BY <1>1, <2>1, <2>4 DEF Holdings
  <2>9. RatingIsSound(c)' /\ ReplyIsKept(c)'
    BY <1>1, <2>1 DEF RatingIsSound, ReplyIsKept
  <2> QED
    BY <2>5, <2>6, <2>7, <2>8, <2>9, StepKeeps DEF CallInv
<1> QED
  BY <1>2, <1>3

LEMMA CollectKeeps ==
  ASSUME IndInv, NEW c \in Call, Collect(c)
  PROVE  IndInv'
<1> USE DEF loopVars, storeVars, entryVars
<1>1. Progress(c) /\ Holdings(c) /\ RatingIsSound(c) /\ ReplyIsKept(c) /\ at[c] = "gone"
  BY DEF IndInv, CallInv, Collect
<1>2. conn' \in [Call -> BOOLEAN]
  BY DEF Collect, IndInv, TypeOK
<1>3. Cardinality({d \in Call : conn'[d]}) <= PoolSize
  BY <1>2, PoolKept DEF Collect, IndInv, TypeOK
<1>4. TypeOK'
  BY <1>2, <1>3 DEF Collect, IndInv, TypeOK
<1>5. OthersStay(c)
  BY StepsAreLocal DEF StepOf, Serve
<1>6. Progress(c)' /\ RatingIsSound(c)' /\ ReplyIsKept(c)'
  BY <1>1 DEF Collect, Progress, IsChat, RatingIsSound, ReplyIsKept
<1>7. Holdings(c)'
  BY <1>1 DEF Collect, Holdings, InLoop
<1> QED
  BY <1>4, <1>5, <1>6, <1>7, StepKeeps DEF CallInv

(* The ids a client was given are those of a committed turn, so a table    *)
(* that refuses the row would do so with every message there.              *)
LEMMA InsertRatingKeeps ==
  ASSUME IndInv, NEW c \in Call, InsertRating(c)
  PROVE  IndInv'
<1> USE DEF loopVars, storeVars, entryVars
<1> DEFINE b == body[c]
<1>1. /\ Progress(c) /\ Holdings(c) /\ RatingIsSound(c) /\ ReplyIsKept(c)
      /\ at[c] = "arrived" /\ b.path = "feedback"
  BY DEF IndInv, CallInv, InsertRating
<1>2. CASE ~TableAccepts(b.rating, b.reason, b.message, stored, b.conversation, stored)
  <2>1. {b.message, b.conversation} \subseteq stored \cup {None}
    BY <1>1 DEF RatingIsSound, IndInv, TypeOK
  <2>2. ~Storable(b) \/ None \in {b.message, b.conversation}
    BY <1>2, <2>1 DEF Storable, TableAccepts
  <2>3. at[c] \in Active /\ End(c, "failed") /\ UNCHANGED <<replies, lost, storeVars>>
    BY <1>1, <1>2 DEF InsertRating, Active
  <2>4. announced \subseteq stored
    BY DEF IndInv, TypeOK
  <2> QED
    BY <2>2, <2>3, <2>4, LiveEndKeeps DEF Ended
<1>3. CASE TableAccepts(b.rating, b.reason, b.message, stored, b.conversation, stored)
  <2>1. /\ conn' = [conn EXCEPT ![c] = TRUE] /\ at' = [at EXCEPT ![c] = "rating"] /\ Free
        /\ UNCHANGED <<settings, entryVars, reply, replies, last, orphan, lost, stored,
                       announced, reached>>
    BY <1>3 DEF InsertRating
  <2>2. conn' \in [Call -> BOOLEAN]
    BY <2>1 DEF IndInv, TypeOK
  <2>3. Cardinality({d \in Call : conn'[d]}) <= PoolSize
    BY <2>1, <2>2, PoolKept DEF IndInv, TypeOK
  <2>4. at'[c] = "rating"
    BY <2>1 DEF IndInv, TypeOK
  <2>5. TypeOK'
    BY <2>1, <2>2, <2>3 DEF IndInv, TypeOK
  <2>6. OthersStay(c)
    BY StepsAreLocal DEF StepOf, Serve
  <2>7. Progress(c)'
    BY <2>4 DEF Progress, Chatting, InLoop
  <2>8. Holdings(c)'
    BY <1>1, <2>1, <2>4 DEF Holdings, Active, Chatting, InLoop
  <2>9. RatingIsSound(c)' /\ ReplyIsKept(c)'
    BY <1>1, <2>1, <2>4 DEF RatingIsSound, ReplyIsKept
  <2> QED
    BY <2>5, <2>6, <2>7, <2>8, <2>9, StepKeeps DEF CallInv
<1> QED
  BY <1>2, <1>3

(* Who waits for a connection has asked nothing yet, has a turn that is    *)
(* stored, or has no client any more.                                      *)
LEMMA PoolTimeoutKeeps ==
  ASSUME IndInv, NEW c \in Call, PoolTimeout(c)
  PROVE  IndInv'
<1> DEFINE how == IF orphan[c] THEN "gone" ELSE "failed"
<1>1. Progress(c) /\ Holdings(c) /\ RatingIsSound(c) /\ ReplyIsKept(c)
  BY DEF IndInv, CallInv
<1>2. how \in Ended /\ End(c, how) /\ UNCHANGED <<replies, stored, announced>>
  BY DEF PoolTimeout, Ended, storeVars
<1>3. how = "failed" => replies[c] = 0 \/ c \in stored
  BY <1>1 DEF PoolTimeout, Waits, Progress, Holdings, InLoop
<1> HIDE DEF how
<1>4. at'[c] = how
  BY <1>2 DEF End, IndInv, TypeOK
<1>5. ReplyIsKept(c)'
  BY <1>2, <1>3, <1>4 DEF ReplyIsKept
<1>6. lost' \in [Call -> BOOLEAN] /\ lost'[c] /\ \A d \in Call \ {c} : lost'[d] = lost[d]
  BY DEF PoolTimeout, IndInv, TypeOK
<1>7. body'[c] = body[c] \/ body'[c] = NoBody
  BY <1>2 DEF End, IndInv, TypeOK
<1>8. RatingIsSound(c)'
  BY <1>1, <1>2, <1>6, <1>7 DEF RatingIsSound, NoBody
<1> QED
  BY <1>2, <1>5, <1>6, <1>8, EndKeeps DEF IndInv, TypeOK

LEMMA StutterKeeps ==
  ASSUME IndInv, UNCHANGED vars
  PROVE  IndInv'
<1> USE DEF vars, loopVars, storeVars, entryVars
<1>1. TypeOK'
  BY DEF IndInv, TypeOK
<1>2. ASSUME NEW c \in Call PROVE CallInv(c)'
  <2>1. CallInv(c)
    BY DEF IndInv
  <2>2. Progress(c)' /\ Holdings(c)'
    BY <2>1 DEF CallInv, Progress, Holdings, IsChat
  <2>3. RatingIsSound(c)' /\ ReplyIsKept(c)'
    BY <2>1 DEF CallInv, RatingIsSound, ReplyIsKept
  <2> QED
    BY <2>2, <2>3 DEF CallInv
<1> QED
  BY <1>1, <1>2 DEF IndInv

(* However the calls overlap, each is as far as its place says, with the   *)
(* token, connection and tool result that go with it.                      *)
THEOREM Invariance == Spec => []IndInv
<1>1. IndInv /\ [Next]_vars => IndInv'
  <2> SUFFICES ASSUME IndInv, [Next]_vars PROVE IndInv'
    OBVIOUS
  <2>1. CASE UNCHANGED vars
    BY <2>1, StutterKeeps
  <2>2. ASSUME NEW c \in Call, Arrive(c) \/ Serve(c) \/ Disconnect(c) \/ Collect(c)
        PROVE  IndInv'
    BY <2>2, ArriveKeeps, DisconnectKeeps, CollectKeeps, PrepareKeeps, EndsKeep, AskKeeps,
       RunRenameKeeps, RunToolKeeps, LogKeeps, CommitKeeps, CountKeeps, OtherEndsKeep,
       InsertRatingKeeps, PoolTimeoutKeeps DEF Serve
  <2> QED
    BY <2>1, <2>2 DEF Next
<1> QED
  BY <1>1, InitIndInv, PTL DEF Spec

-----------------------------------------------------------------------------
(* The stub's conversations. *)

LEMMA InitStubInv == Init => StubInv
BY DEF Init, StubInv, StubCallInv, StubAsking, StubCalling, StubLogging, StubSettled

(* What the stub says first calls a tool that will run, or no tool.        *)
LEMMA StubFirst ==
  ASSUME TypeOK, settings.stub, NEW c \in Call, last[c] = NoResult, NEW r \in Replies(c)
  PROVE  \/ r.tool = NoTool /\ r.says # "an unknown number"
         \/ r.tool = "rename_conversation"
         \/ r.tool = "get_inbound_count" /\ ScopeGrants(token[c].scopes, WmsInbound)
<1> DEFINE q == body[c].question
           visible == Offered(c)
           allowed == token[c].scopes
<1>1. r \in FirstReplies(q, visible, allowed)
  BY DEF Replies, StubReplies
<1>2. "get_inbound_count" \in visible => ScopeGrants(allowed, WmsInbound)
  BY DEF Offered, ToolsForScopes, ToolScopes, AllTools
<1>3. \/ r = CallsTool("rename_conversation")
      \/ r = CallsTool("get_inbound_count") /\ ScopeGrants(allowed, WmsInbound)
      \/ \E text \in {"canned", "no answer", "revenue", "exception"} : r = Says(text)
  <2>1. WarehouseDown = Says("exception")
    BY DEF WarehouseDown, Says
  <2> QED
    BY <1>1, <1>2, <2>1 DEF FirstReplies
<1> HIDE DEF q, visible, allowed
<1>4. CASE \E text \in {"canned", "no answer", "revenue", "exception"} : r = Says(text)
  <2>1. PICK text : r = Says(text) /\ text # "an unknown number"
    BY <1>4
  <2>2. Says(text).tool = NoTool /\ Says(text).says = text
    BY DEF Says
  <2> QED
    BY <2>1, <2>2
<1>5. CASE r = CallsTool("rename_conversation")
  BY <1>5 DEF CallsTool
<1>6. CASE r = CallsTool("get_inbound_count") /\ ScopeGrants(allowed, WmsInbound)
  BY <1>6 DEF CallsTool, allowed
<1> QED
  BY <1>3, <1>4, <1>5, <1>6

(* What it says with a result at hand is the answer.                       *)
LEMMA StubSecond ==
  ASSUME settings.stub, NEW c \in Call, last[c] \in Usable, NEW r \in Replies(c)
  PROVE  r.tool = NoTool /\ r.says # "an unknown number"
<1>1. last[c] \in {"renamed", "NO_DATA", "UPSTREAM_ERROR", "SUCCESS"}
  BY DEF Usable
<1>2. /\ Answer["renamed"] # "an unknown number" /\ Answer["NO_DATA"] # "an unknown number"
      /\ Answer["UPSTREAM_ERROR"] # "an unknown number"
      /\ Answer["SUCCESS"] # "an unknown number"
  BY DEF Answer
<1>3. r = Says(Answer[last[c]])
  BY <1>1 DEF Replies, StubReplies, NoResult
<1> QED
  BY <1>1, <1>2, <1>3 DEF Says

LEMMA StubOthersKeep ==
  ASSUME StubInv, settings.stub, NEW c \in Call, OthersStay(c), StubCallInv(c)'
  PROVE  StubInv'
<1>1. ASSUME NEW d \in Call, d # c PROVE StubCallInv(d)'
  <2>1. StubCallInv(d)
    BY DEF StubInv
  <2> QED
    BY <1>1, <2>1
       DEF OthersStay, StubCallInv, StubAsking, StubCalling, StubLogging, StubSettled
<1> QED
  BY <1>1 DEF StubInv

LEMMA StubAsk ==
  ASSUME IndInv, settings.stub, NEW c \in Call, StubCallInv(c), Ask(c)
  PROVE  StubCallInv(c)'
<1>1. PICK r \in Replies(c) \ {WarehouseDown} :
        /\ reply' = [reply EXCEPT ![c] = r]
        /\ at' = [at EXCEPT ![c] = IF r.tool # NoTool THEN "tools" ELSE "looped"]
  BY DEF Ask
<1>2. /\ reply'[c] = r /\ at'[c] = IF r.tool # NoTool THEN "tools" ELSE "looped"
      /\ replies'[c] = replies[c] + 1 /\ token'[c] = token[c]
  BY <1>1 DEF Ask, IndInv, TypeOK, entryVars
<1>3. StubAsking(c) /\ at[c] = "asking" /\ TypeOK
  BY DEF StubCallInv, Ask, IndInv
<1>4. CASE replies[c] = 0 /\ last[c] = NoResult
  <2>1. \/ r.tool = NoTool /\ r.says # "an unknown number"
        \/ r.tool = "rename_conversation"
        \/ r.tool = "get_inbound_count" /\ ScopeGrants(token[c].scopes, WmsInbound)
    BY <1>3, <1>4, StubFirst
  <2>2. replies'[c] = 1
    BY <1>2, <1>4
  <2>3. replies'[c] <= 2 /\ StubAsking(c)' /\ StubLogging(c)'
    BY <1>2, <2>2 DEF StubAsking, StubLogging
  <2>4. StubCalling(c)'
    BY <1>2, <2>1, <2>2 DEF StubCalling
  <2>5. StubSettled(c)'
    BY <1>2, <2>1 DEF StubSettled, NoTool
  <2> QED
    BY <2>3, <2>4, <2>5 DEF StubCallInv
<1>5. CASE replies[c] = 1 /\ last[c] \in Usable
  <2>1. r.tool = NoTool /\ r.says # "an unknown number"
    BY <1>5, StubSecond
  <2>2. replies'[c] = 2
    BY <1>2, <1>5
  <2>3. at'[c] = "looped" /\ reply'[c] = r
    BY <1>2, <2>1
  <2>4. replies'[c] <= 2 /\ StubAsking(c)' /\ StubLogging(c)' /\ StubCalling(c)'
    BY <2>2, <2>3 DEF StubAsking, StubLogging, StubCalling
  <2>5. StubSettled(c)'
    BY <2>1, <2>3 DEF StubSettled
  <2> QED
    BY <2>4, <2>5 DEF StubCallInv
<1> QED
  BY <1>3, <1>4, <1>5 DEF StubAsking

(* The steps that run a tool or write its log stay within the iterations.  *)
LEMMA StubRun ==
  ASSUME IndInv, MaxToolIterations > 1, settings.stub, NEW c \in Call, StubCallInv(c),
         RunRename(c) \/ RunTool(c) \/ Log(c)
  PROVE  StubCallInv(c)'
<1>1. StubCalling(c) /\ StubLogging(c) /\ TypeOK /\ replies[c] \in Nat
  BY ApiProcessAssumption DEF StubCallInv, IndInv, TypeOK
<1>2. CASE RunRename(c)
  <2>1. /\ at'[c] = "asking" /\ replies'[c] = 1 /\ last'[c] = "renamed"
    BY <1>1, <1>2 DEF RunRename, Iterate, StubCalling, TypeOK
  <2>2. StubAsking(c)'
    BY <2>1 DEF StubAsking, Usable
  <2>3. replies'[c] <= 2 /\ StubLogging(c)' /\ StubCalling(c)' /\ StubSettled(c)'
    BY <2>1 DEF StubLogging, StubCalling, StubSettled
  <2> QED
    BY <2>2, <2>3 DEF StubCallInv
<1>3. CASE RunTool(c)
  <2> DEFINE result == ExecuteTool(reply[c].tool, token[c].scopes, settings.wms)
  <2>1. /\ reply[c].tool = "get_inbound_count" /\ replies[c] = 1
        /\ ScopeGrants(token[c].scopes, WmsInbound)
    BY <1>1, <1>3 DEF RunTool, StubCalling
  <2>2. result \in Usable
    BY <2>1 DEF ExecuteTool, ToolScopes, GetInboundCount, Envelope, Usable
  <2>3. at'[c] = "logging" /\ replies'[c] = 1 /\ last'[c] = result
    BY <1>1, <1>3, <2>1 DEF RunTool, TypeOK
  <2> HIDE DEF result
  <2>4. StubLogging(c)'
    BY <2>2, <2>3 DEF StubLogging
  <2>5. replies'[c] <= 2 /\ StubAsking(c)' /\ StubCalling(c)' /\ StubSettled(c)'
    BY <2>3 DEF StubAsking, StubCalling, StubSettled
  <2> QED
    BY <2>4, <2>5 DEF StubCallInv
<1>4. CASE Log(c)
  <2>1. /\ replies'[c] = 1 /\ last'[c] \in Usable
        /\ at'[c] = "asking" \/ (at'[c] = "looped" /\ orphan'[c])
    BY <1>1, <1>4 DEF Log, Iterate, StubLogging, TypeOK
  <2>2. StubAsking(c)' /\ StubLogging(c)'
    BY <2>1 DEF StubAsking, StubLogging
  <2>3. replies'[c] <= 2 /\ StubCalling(c)'
    BY <2>1 DEF StubCalling
  <2>4. StubSettled(c)'
    BY <2>1 DEF StubSettled
  <2> QED
    BY <2>2, <2>3, <2>4 DEF StubCallInv
<1> QED
  BY <1>2, <1>3, <1>4

(* Steps that start a chat, end a call, or are none of a chat's loop.      *)
LEMMA StubAside ==
  ASSUME NEW c \in Call, StubCallInv(c), replies'[c] = replies[c],
         \/ at'[c] \in Ended \cup {"arrived", "rating"}
         \/ at'[c] = "asking" /\ replies[c] = 0 /\ last'[c] = NoResult
  PROVE  StubCallInv(c)'
<1>1. replies[c] <= 2
  BY DEF StubCallInv
<1>2. StubAsking(c)' /\ StubCalling(c)' /\ StubLogging(c)' /\ StubSettled(c)'
  BY DEF StubAsking, StubCalling, StubLogging, StubSettled, Ended
<1> QED
  BY <1>1, <1>2 DEF StubCallInv

(* Steps that keep the reply, the call being where it was or, with its     *)
(* answer, a step farther.                                                 *)
LEMMA StubOn ==
  ASSUME NEW c \in Call, StubCallInv(c),
         replies'[c] = replies[c], reply'[c] = reply[c], last'[c] = last[c],
         token'[c] = token[c], orphan[c] => orphan'[c],
         \/ at'[c] = at[c]
         \/ at[c] \in {"looped", "committed"} /\ at'[c] \in {"committed", "counted"}
  PROVE  StubCallInv(c)'
<1>1. replies[c] <= 2 /\ StubAsking(c) /\ StubCalling(c) /\ StubLogging(c) /\ StubSettled(c)
  BY DEF StubCallInv
<1>2. StubAsking(c)'
  BY <1>1 DEF StubAsking
<1>3. StubCalling(c)'
  BY <1>1 DEF StubCalling
<1>4. StubLogging(c)'
  BY <1>1 DEF StubLogging
<1>5. StubSettled(c)'
  BY <1>1 DEF StubSettled
<1> QED
  BY <1>1, <1>2, <1>3, <1>4, <1>5 DEF StubCallInv

LEMMA StubStep ==
  ASSUME IndInv, IndInv', StubInv, MaxToolIterations > 1, [Next]_vars
  PROVE  StubInv'
<1> SUFFICES ASSUME settings.stub, settings'.stub PROVE StubInv'
  <2>1. settings' = settings
    <3>1. CASE UNCHANGED vars
      BY <3>1 DEF vars
    <3>2. CASE \E c \in Call : StepOf(c)
      BY <3>2, StepsAreLocal DEF OthersStay
    <3> QED
      BY <3>1, <3>2 DEF Next, StepOf
  <2> QED
    BY <2>1 DEF StubInv
<1>1. CASE UNCHANGED vars
  <2>1. \A c \in Call : StubCallInv(c)
    BY DEF StubInv
  <2>2. ASSUME NEW c \in Call PROVE StubCallInv(c)'
    BY <1>1, <2>1, StubOn DEF vars, entryVars, loopVars
  <2> QED
    BY <2>2 DEF StubInv
<1>2. ASSUME NEW c \in Call, StepOf(c) PROVE StubInv'
  <2> SUFFICES StubCallInv(c)'
    BY <1>2, StepsAreLocal, StubOthersKeep
  <2> USE DEF entryVars, loopVars, storeVars
  <2>1. StubCallInv(c) /\ TypeOK /\ Progress(c)
    BY DEF StubInv, IndInv, CallInv
  <2>2. CASE Ask(c)
    BY <2>1, <2>2, StubAsk
  <2>3. CASE RunRename(c) \/ RunTool(c) \/ Log(c)
    BY <2>1, <2>3, StubRun
  <2>4. CASE \/ NotFound(c) \/ Vanish(c) \/ Raise(c) \/ Respond(c) \/ AnswerTools(c)
             \/ AnswerTitle(c) \/ RefuseRating(c) \/ CommitRating(c) \/ PoolTimeout(c)
    <3>1. PICK how \in Ended : End(c, how) /\ replies' = replies
      BY <2>4
         DEF NotFound, Vanish, Raise, Respond, AnswerTools, AnswerTitle, RefuseRating,
             CommitRating, PoolTimeout, Ended
    <3>2. at'[c] = how
      BY <2>1, <3>1 DEF End, TypeOK
    <3> QED
      BY <2>1, <3>1, <3>2, StubAside
  <2>5. CASE Arrive(c) \/ Prepare(c) \/ InsertRating(c)
    <3>1. replies'[c] = replies[c]
      BY <2>5 DEF Arrive, Prepare, InsertRating
    <3>2. CASE Arrive(c)
      <4>1. at'[c] \in {"arrived", "refused"}
        BY <2>1, <3>2 DEF Arrive, TypeOK
      <4> QED
        BY <2>1, <3>1, <4>1, StubAside DEF Ended
    <3>3. CASE Prepare(c)
      <4>1. at'[c] = "asking" /\ replies[c] = 0 /\ last'[c] = NoResult
        BY <2>1, <3>3 DEF Prepare, TypeOK, Progress
      <4> QED
        BY <2>1, <3>1, <4>1, StubAside
    <3>4. CASE InsertRating(c)
      <4>1. at'[c] \in {"rating", "failed"}
        BY <2>1, <3>4 DEF InsertRating, End, TypeOK
      <4> QED
        BY <2>1, <3>1, <4>1, StubAside DEF Ended
    <3> QED
      BY <2>5, <3>2, <3>3, <3>4
  <2>6. CASE Commit(c) \/ Count(c) \/ Collect(c)
    <3>1. /\ replies' = replies /\ reply' = reply /\ last' = last /\ token' = token
          /\ orphan' = orphan
          /\ \/ at'[c] = at[c]
             \/ at[c] \in {"looped", "committed"} /\ at'[c] \in {"committed", "counted"}
      BY <2>1, <2>6 DEF Commit, Count, Collect, TypeOK
    <3> QED
      BY <2>1, <3>1, StubOn
  <2>7. CASE Disconnect(c)
    <3>1. CASE at[c] \in {"asking", "tools", "logging"}
      <4>1. /\ replies' = replies /\ reply' = reply /\ last' = last /\ token' = token
            /\ orphan'[c] /\ at' = at
        BY <2>1, <2>7, <3>1 DEF Disconnect, TypeOK
      <4> QED
        BY <2>1, <4>1, StubOn
    <3>2. CASE at[c] \notin {"asking", "tools", "logging"}
      <4>1. at'[c] = "gone" /\ replies' = replies
        BY <2>1, <2>7, <3>2 DEF Disconnect, End, TypeOK
      <4> QED
        BY <2>1, <4>1, StubAside DEF Ended
    <3> QED
      BY <3>1, <3>2
  <2> QED
    BY <1>2, <2>2, <2>3, <2>4, <2>5, <2>6, <2>7 DEF StepOf, Serve
<1> QED
  BY <1>1, <1>2 DEF Next, StepOf

-----------------------------------------------------------------------------
(* What follows. *)

(* Every variable keeps its type; in particular no more connections are    *)
(* taken than the pool has.                                                *)
THEOREM TypeCorrect == Spec => []TypeOK
<1>1. IndInv => TypeOK
  BY DEF IndInv
<1> QED
  BY <1>1, Invariance, PTL

(* execute_tool and the stub reach the WMS and the warehouse only for      *)
(* calls whose token was valid and has a scope that covers them, whatever  *)
(* the model asks for.                                                     *)
THEOREM Granted == Spec => []OutsideIsGranted
<1>1. IndInv => OutsideIsGranted
  <2> SUFFICES ASSUME IndInv, NEW e \in reached
               PROVE  token[e[1]].left > 0 /\ token[e[1]].scopes \cap Covering[e[2]] # {}
    BY DEF OutsideIsGranted
  <2>1. e[1] \in Call
    BY DEF IndInv, TypeOK
  <2>2. Holdings(e[1])
    BY <2>1 DEF IndInv, CallInv
  <2>3. at[e[1]] \in Active /\ token[e[1]].scopes \cap Covering[e[2]] # {}
    BY <2>2 DEF Holdings, Active
  <2>4. token[e[1]].left > 0
    BY <2>2, <2>3 DEF Holdings
  <2> QED
    BY <2>3, <2>4
<1> QED
  BY <1>1, Invariance, PTL

(* What GET /tools lists under the WMS for some scopes, execute_tool runs  *)
(* in a chat with the same scopes.                                         *)
THEOREM ShownRuns == Spec => []ShownIsRunnable
<1>1. IndInv => ShownIsRunnable
  <2> SUFFICES ASSUME IndInv, NEW c \in Call, NEW d \in Call,
                      token[c].scopes = token[d].scopes, at[d] = "logging",
                      last[d] = "error", reply[d].tool \in ListTools(token[c].scopes, "wms")
               PROVE  FALSE
    BY DEF ShownIsRunnable
  <2>1. reply[d].tool = "get_inbound_count" /\ ScopeGrants(token[d].scopes, WmsInbound)
    BY DEF ListTools, AllTools, ToolScopes
  <2>2. last[d] = ExecuteTool(reply[d].tool, token[d].scopes, settings.wms)
    BY DEF IndInv, CallInv, Holdings
  <2>3. settings.wms \in BOOLEAN
    BY DEF IndInv, TypeOK
  <2> QED
    BY <2>1, <2>2, <2>3, ToolResults
<1> QED
  BY <1>1, Invariance, PTL

(* FeedbackService.add never refuses a rating the table would have taken,  *)
(* and the message a client was told of is there to be rated.              *)
THEOREM RatingsStored == Spec => []RatingsReachTheTable
<1>1. IndInv => RatingsReachTheTable
  BY DEF IndInv, CallInv, RatingIsSound, RatingsReachTheTable
<1> QED
  BY <1>1, Invariance, PTL

(* A chat that fails because the pool is empty had no reply of the model   *)
(* yet or has its turn stored.                                             *)
THEOREM RepliesKept == Spec => []NoReplyIsLostToThePool
<1>1. IndInv => NoReplyIsLostToThePool
  BY DEF IndInv, CallInv, ReplyIsKept, NoReplyIsLostToThePool
<1> QED
  BY <1>1, Invariance, PTL

(* With at least two iterations (MAX_TOOL_ITERATIONS is 5) the stub's      *)
(* conversations end with an answer, by the second reply.                  *)
THEOREM StubEnds ==
  ASSUME MaxToolIterations > 1
  PROVE  Spec => []StubSettles
<1>1. IndInv /\ IndInv' /\ StubInv /\ [Next]_vars => StubInv'
  BY StubStep
<1>2. StubInv => StubSettles
  BY DEF StubInv, StubCallInv, StubSettled, StubSettles
<1> QED
  BY <1>1, <1>2, InitStubInv, Invariance, PTL DEF Spec
=============================================================================
