--------------------------- MODULE Accounts_proofs ---------------------------
(***************************************************************************)
(* Theorems about Accounts, for all addresses, codes, columns and requests. *)
(*                                                                         *)
(* A step belongs to one request (Act) or is an expiry.  Own and Moves say *)
(* what a step of a request leaves alone and where it leads, RowsAct and    *)
(* CodeAct what it does to the rows and the codes.  Each part of AccountInv *)
(* is preserved because of these and of a few other parts; Labels ties what *)
(* a request holds to where it is, PriorAnswered says that of the requests     *)
(* in another one's past only goroutines of uploads still write.            *)
(***************************************************************************)
EXTENDS Accounts, TLAPS

Act(r) == \/ SendCode(r) \/ Register(r) \/ ResetPwd(r) \/ GetCode(r) \/ DeleteCode(r)
          \/ Profile(r) \/ RequestError(r)

Saved   == {"limit", "mail", "sent", "unsent"}
Granted == {"create", "commit", "update", "regDelete", "resetDelete", "registered", "reset"}

\* What a request is about and carries where it is, and what it was granted.
LabelOf(r) ==
  /\ pc[r] \in Saved \cup Granted \cup {"exists", "save", "regCode", "resetCode", "refused"}
       => key[r] \in Email
  /\ pc[r] \in Granted => via[r] # None
  /\ pc[r] \in Saved \cup {"idle", "exists", "save", "regCode", "resetCode", "refused"}
       => via[r] = None
  /\ pc[r] \in {"info", "updated"} => arg[r] \subseteq Field
  /\ pc[r] \in {"saving", "uploaded", "applied", "lost"} => arg[r] \subseteq ImgType
  /\ pc[r] = "commit" => <<"qr", r>> \in file
  /\ pc[r] \in {"uploaded", "applied"} => <<"thumb", r>> \in file

Labels == \A r \in Req : LabelOf(r)

PriorAnswered == \A r, q \in Req : q \in prior[r] => pc[q] \in Answered

-----------------------------------------------------------------------------
(* What a step of one request leaves alone. *)

LEMMA Own ==
  ASSUME TypeOK, NEW r \in Req, Act(r)
  PROVE  /\ \A q \in Req \ {r} : /\ pc'[q] = pc[q] /\ key'[q] = key[q] /\ arg'[q] = arg[q]
                                 /\ via'[q] = via[q] /\ prior'[q] = prior[q]
         /\ pc[r] \notin Ended
         /\ pc[r] = "idle" => via'[r] = via[r] /\ prior'[r] = {q \in Req : pc[q] \in Answered}
         /\ pc[r] # "idle" => key'[r] = key[r] /\ prior'[r] = prior[r]
         /\ file \subseteq file'
         /\ pc[r] \in Saved => pc'[r] \in Saved /\ arg'[r] = arg[r] /\ via'[r] = via[r]
<1> USE DEF TypeOK, Begin, Goto, Ended, Saved
<1>1. CASE CheckSendLimit(r) \/ RegisterCheckEmail(r) \/ ResetCheckEmail(r)
           \/ UpdateInfoBegin(r) \/ UploadImgBegin(r)
  BY <1>1 DEF CheckSendLimit, RegisterCheckEmail, ResetCheckEmail, UpdateInfoBegin, UploadImgBegin
<1>2. CASE CheckEmail(r) \/ SaveCode(r) \/ SetSendLimit(r) \/ SendQQEmail(r)
  BY <1>2 DEF CheckEmail, SaveCode, SetSendLimit, SendQQEmail
<1>3. CASE GetCode(r)
  BY <1>3 DEF GetCode
<1>4. CASE CreateUser(r) \/ RegisterCommit(r) \/ UpdatePassword(r) \/ DeleteCode(r)
  BY <1>4 DEF CreateUser, RegisterCommit, UpdatePassword, DeleteCode
<1>5. CASE UpdateInfo(r) \/ SaveThumb(r) \/ UpdateImgUrl(r)
  BY <1>5 DEF UpdateInfo, SaveThumb, UpdateImgUrl
<1>6. CASE RequestError(r)
  BY <1>6 DEF RequestError
<1> QED
  BY <1>1, <1>2, <1>3, <1>4, <1>5, <1>6 DEF Act, SendCode, Register, ResetPwd, Profile

\* The first state.
LEMMA AccountInit == Init => TypeOK /\ Labels /\ PriorAnswered
<1> SUFFICES ASSUME Init PROVE TypeOK /\ Labels /\ PriorAnswered
  OBVIOUS
<1> USE AccountAssumption DEF Init
<1>1. TypeOK
  <2>1. users \subseteq [uid : Uid, email : Email, col : [Column -> Uid]]
    BY DEF NewUser, Uid
  <2>2. category \subseteq Uid /\ file \subseteq {"qr", "thumb"} \X Uid
    BY DEF Uid
  <2> QED
    BY <2>1, <2>2 DEF TypeOK
<1>2. Labels /\ PriorAnswered
  BY DEF Labels, LabelOf, PriorAnswered, Saved, Granted, Ended
<1> QED
  BY <1>1, <1>2

-----------------------------------------------------------------------------
(* Types and labels. *)

\* An UPDATE keeps the rows' types, uids and emails and writes only its columns.
LEMMA SetColumnType ==
  ASSUME users \subseteq [uid : Uid, email : Email, col : [Column -> Uid]],
         NEW us \in SUBSET users, NEW ks, NEW r \in Req, SetColumn(us, ks, r)
  PROVE  users' \subseteq [uid : Uid, email : Email, col : [Column -> Uid]]
<1>1. \A u \in us : [u EXCEPT !.col = [k \in Column |-> IF k \in ks THEN r ELSE @[k]]]
                      \in [uid : Uid, email : Email, col : [Column -> Uid]]
  BY DEF Uid
<1> QED
  BY <1>1 DEF SetColumn

\* What a request is after its first step.
LEMMA BeginIs ==
  ASSUME TypeOK, NEW r \in Req, NEW k, NEW x, NEW l, Begin(r, k, x, l)
  PROVE  pc[r] = "idle" /\ pc'[r] = l /\ key'[r] = k /\ arg'[r] = x /\ via'[r] = via[r]
BY DEF TypeOK, Begin

\* Where a request can go from where it is.
LEMMA Moves ==
  ASSUME TypeOK, NEW r \in Req, Act(r)
  PROVE  /\ pc[r] = "idle" => pc'[r] \in {"exists", "regCode", "resetCode", "info", "saving", "failed"}
         /\ pc[r] = "exists" => pc'[r] \in {"save", "failed"}
         /\ pc[r] = "save" => pc'[r] \in {"limit", "unsent", "failed"}
         /\ pc[r] = "limit" => pc'[r] \in {"mail", "unsent"}
         /\ pc[r] = "mail" => pc'[r] \in {"sent", "unsent"}
         /\ pc[r] = "regCode" => pc'[r] \in {"create", "refused", "failed"}
         /\ pc[r] = "resetCode" => pc'[r] \in {"update", "refused", "failed"}
         /\ pc[r] = "create" => pc'[r] \in {"commit", "failed"}
         /\ pc[r] = "commit" => pc'[r] \in {"regDelete", "failed"}
         /\ pc[r] = "update" => pc'[r] \in {"resetDelete", "failed"}
         /\ pc[r] = "regDelete" => pc'[r] = "registered"
         /\ pc[r] = "resetDelete" => pc'[r] = "reset"
         /\ pc[r] = "info" => pc'[r] \in {"updated", "failed"}
         /\ pc[r] = "saving" => pc'[r] \in {"uploaded", "failed"}
         /\ pc[r] = "uploaded" => pc'[r] \in {"applied", "lost"}
         /\ pc[r] \notin Ended
<1>0. pc[r] \notin Ended
  BY Own
<1>1. CASE CheckSendLimit(r) \/ RegisterCheckEmail(r) \/ ResetCheckEmail(r)
  <2>1. pc[r] = "idle" /\ pc'[r] \in {"exists", "regCode", "resetCode", "failed"}
    BY <1>1, BeginIs DEF CheckSendLimit, RegisterCheckEmail, ResetCheckEmail
  <2> QED
    BY <1>0, <2>1
<1>2. CASE UpdateInfoBegin(r)
  <2>1. pc[r] = "idle" /\ pc'[r] \in {"info", "failed"}
    BY <1>2, BeginIs DEF UpdateInfoBegin
  <2> QED
    BY <1>0, <2>1
<1>3. CASE UploadImgBegin(r)
  <2>1. pc[r] = "idle" /\ pc'[r] = "saving"
    BY <1>3, BeginIs DEF UploadImgBegin
  <2> QED
    BY <1>0, <2>1
<1> USE <1>0 DEF Goto, TypeOK
<1>4. CASE CheckEmail(r) \/ SaveCode(r) \/ SetSendLimit(r) \/ SendQQEmail(r)
  BY <1>4 DEF CheckEmail, SaveCode, SetSendLimit, SendQQEmail
<1>5. CASE GetCode(r)
  BY <1>5 DEF GetCode
<1>6. CASE CreateUser(r) \/ RegisterCommit(r) \/ UpdatePassword(r) \/ DeleteCode(r)
  BY <1>6 DEF CreateUser, RegisterCommit, UpdatePassword, DeleteCode
<1>7. CASE UpdateInfo(r) \/ SaveThumb(r) \/ UpdateImgUrl(r)
  BY <1>7 DEF UpdateInfo, SaveThumb, UpdateImgUrl
<1>8. CASE RequestError(r)
  BY <1>8 DEF RequestError
<1> QED
  BY <1>1, <1>2, <1>3, <1>4, <1>5, <1>6, <1>7, <1>8 DEF Act, SendCode, Register, ResetPwd, Profile

\* Steps of requests keep the labels.
LEMMA LabelsAct ==
  ASSUME TypeOK, Labels, NEW r \in Req, Act(r)
  PROVE  Labels'
<1>1. ASSUME NEW q \in Req \ {r} PROVE LabelOf(q)'
  BY Own DEF Labels, LabelOf
<1>2. LabelOf(r)'
  <2> USE DEF LabelOf, Saved, Granted
  <2>0. LabelOf(r) /\ file \subseteq file'
    BY Own DEF Labels
  <2>1. CASE CheckSendLimit(r)
    <3>1. pc'[r] \in {"failed", "exists"} /\ key'[r] \in Email /\ via'[r] = None
      BY <2>0, <2>1, BeginIs DEF CheckSendLimit
    <3> QED
      BY <3>1
  <2>2. CASE RegisterCheckEmail(r) \/ ResetCheckEmail(r)
    <3>1. pc'[r] \in {"failed", "regCode", "resetCode"} /\ key'[r] \in Email /\ via'[r] = None
      BY <2>0, <2>2, BeginIs DEF RegisterCheckEmail, ResetCheckEmail
    <3> QED
      BY <3>1
  <2>3. CASE UpdateInfoBegin(r)
    <3>1. pc'[r] \in {"failed", "info"} /\ arg'[r] \subseteq Field
      BY <2>3, BeginIs DEF UpdateInfoBegin
    <3> QED
      BY <3>1
  <2>4. CASE UploadImgBegin(r)
    <3>1. pc'[r] = "saving" /\ arg'[r] \subseteq ImgType
      BY <2>4, BeginIs DEF UploadImgBegin
    <3> QED
      BY <3>1
  <2>5. CASE CheckEmail(r) \/ SaveCode(r) \/ SetSendLimit(r) \/ SendQQEmail(r)
    <3>1. /\ pc[r] \in {"exists", "save", "limit", "mail"} /\ pc'[r] \in Saved \cup {"failed", "save"}
          /\ via'[r] = via[r] /\ key'[r] = key[r]
      BY <2>5 DEF CheckEmail, SaveCode, SetSendLimit, SendQQEmail, Goto, TypeOK
    <3> QED
      BY <2>0, <3>1
  <2>6. CASE GetCode(r)
    <3>1. \/ pc'[r] \in {"create", "update"} /\ code[key[r]] # None /\ via'[r] = code[key[r]].by
          \/ pc'[r] = "refused" /\ via'[r] = via[r]
      BY <2>6 DEF GetCode, Goto, TypeOK
    <3>2. pc[r] \in {"regCode", "resetCode"} /\ key'[r] = key[r]
      BY <2>6 DEF GetCode, Goto
    <3>3. code[key[r]] # None => code[key[r]].by # None
      BY <2>0, <3>2, AccountAssumption DEF TypeOK
    <3> QED
      BY <2>0, <3>1, <3>2, <3>3
  <2>7. CASE CreateUser(r)
    <3>1. /\ pc[r] = "create" /\ pc'[r] \in {"failed", "commit"}
          /\ via'[r] = via[r] /\ key'[r] = key[r] /\ <<"qr", r>> \in file'
      BY <2>7 DEF CreateUser, Goto, TypeOK
    <3> QED
      BY <2>0, <3>1
  <2>8. CASE RegisterCommit(r) \/ UpdatePassword(r) \/ DeleteCode(r)
    <3>1. /\ pc[r] \in Granted /\ pc'[r] \in {"regDelete", "resetDelete", "registered", "reset", "failed"}
          /\ via'[r] = via[r] /\ key'[r] = key[r]
      BY <2>8 DEF RegisterCommit, UpdatePassword, DeleteCode, Goto, TypeOK
    <3> QED
      BY <2>0, <3>1
  <2>9. CASE UpdateInfo(r)
    <3>1. pc[r] = "info" /\ pc'[r] \in {"updated", "failed"} /\ arg'[r] = arg[r]
      BY <2>9 DEF UpdateInfo, Goto, TypeOK
    <3> QED
      BY <2>0, <3>1
  <2>10. CASE SaveThumb(r)
    <3>1. pc[r] = "saving" /\ pc'[r] = "uploaded" /\ arg'[r] = arg[r] /\ <<"thumb", r>> \in file'
      BY <2>10 DEF SaveThumb, Goto, TypeOK
    <3> QED
      BY <2>0, <3>1
  <2>11. CASE UpdateImgUrl(r)
    <3>1. pc[r] = "uploaded" /\ pc'[r] \in {"applied", "lost"} /\ arg'[r] = arg[r]
      BY <2>11 DEF UpdateImgUrl, Goto, TypeOK
    <3> QED
      BY <2>0, <3>1
  <2>12. CASE RequestError(r)
    <3>1. /\ pc'[r] = "failed" \/ (pc[r] = "limit" /\ pc'[r] = "unsent")
          /\ via'[r] = via[r] /\ key'[r] = key[r]
      BY <2>12 DEF RequestError, Goto, TypeOK
    <3> QED
      BY <2>0, <3>1
  <2> QED
    BY <2>1, <2>2, <2>3, <2>4, <2>5, <2>6, <2>7, <2>8, <2>9, <2>10, <2>11, <2>12
    DEF Act, SendCode, Register, ResetPwd, Profile
<1> QED
  BY <1>1, <1>2 DEF Labels

\* Answered requests stay answered: a goroutine only ends.
LEMMA PriorAct ==
  ASSUME TypeOK, PriorAnswered, NEW r \in Req, Act(r)
  PROVE  PriorAnswered'
<1>1. \A q \in Req : pc[q] \in Answered => pc'[q] \in Answered
  BY Own, Moves DEF Answered, Ended
<1> QED
  BY <1>1, Own DEF PriorAnswered, TypeOK

\* Where requests are, what they are about, and their history.
Place == Ended \cup {"idle", "exists", "save", "limit", "mail", "regCode", "resetCode",
                     "create", "commit", "update", "regDelete", "resetDelete", "info",
                     "saving", "uploaded"}
Carried == SUBSET (Code \cup ReqType \cup Column)

RequestTypes ==
  /\ pc \in [Req -> Place] /\ key \in [Req -> Uid \cup {None}] /\ arg \in [Req -> Carried]
  /\ via \in [Req -> Req \cup {None}] /\ prior \in [Req -> SUBSET Req]

LEMMA TypeBegin ==
  ASSUME RequestTypes, NEW r \in Req,
         NEW k \in Uid, NEW x \in Carried, NEW l \in Place, Begin(r, k, x, l)
  PROVE  RequestTypes'
BY DEF RequestTypes, Begin

LEMMA TypeGoto ==
  ASSUME RequestTypes, NEW r \in Req, NEW l \in Place, Goto(r, l),
         arg' \in [Req -> Carried], via' \in [Req -> Req \cup {None}]
  PROVE  RequestTypes'
BY DEF RequestTypes, Goto

LEMMA TypeRequest ==
  ASSUME TypeOK, Labels, NEW r \in Req, Act(r)
  PROVE  RequestTypes'
<1>0. RequestTypes
  BY DEF TypeOK, RequestTypes, Place, Carried
<1>1. \A l \in Ended \cup {"exists", "save", "limit", "mail", "regCode", "resetCode", "create",
        "commit", "update", "regDelete", "resetDelete", "info", "saving", "uploaded"} : l \in Place
  BY DEF Place
<1>2. {"sent", "unsent", "registered", "reset", "updated", "applied", "lost", "refused",
       "failed"} \subseteq Place
  BY DEF Place, Ended
<1>3. Email \subseteq Uid /\ \A u \in users : u.uid \in Uid
  BY DEF TypeOK, Uid
<1>4. /\ \A t \in ReqType : {t} \in Carried
      /\ \A c \in Code : {c} \in Carried
      /\ \A t \in ImgType : {t} \in Carried
      /\ \A ks \in SUBSET Field : ks \in Carried
  BY DEF Carried, Column
<1>5. CASE CheckSendLimit(r)
  <2>1. PICK e \in Email, t \in ReqType :
          Begin(r, e, {t}, IF e \in limit THEN "failed" ELSE "exists")
    BY <1>5 DEF CheckSendLimit
  <2> QED
    BY <1>0, <1>1, <1>2, <1>3, <1>4, <2>1, TypeBegin
<1>6. CASE RegisterCheckEmail(r)
  <2>1. PICK e \in Email, c \in Code :
          Begin(r, e, {c}, IF IsEmailExists(e) THEN "failed" ELSE "regCode")
    BY <1>6 DEF RegisterCheckEmail
  <2> QED
    BY <1>0, <1>1, <1>2, <1>3, <1>4, <2>1, TypeBegin
<1>7. CASE ResetCheckEmail(r)
  <2>1. PICK e \in Email, c \in Code :
          Begin(r, e, {c}, IF IsEmailExists(e) THEN "resetCode" ELSE "failed")
    BY <1>7 DEF ResetCheckEmail
  <2> QED
    BY <1>0, <1>1, <1>2, <1>3, <1>4, <2>1, TypeBegin
<1>8. CASE UpdateInfoBegin(r)
  <2>1. PICK u \in users, ks \in SUBSET Field :
          Begin(r, u.uid, ks, IF ks = {} THEN "failed" ELSE "info")
    BY <1>8 DEF UpdateInfoBegin
  <2> QED
    BY <1>0, <1>1, <1>2, <1>3, <1>4, <2>1, TypeBegin
<1>9. CASE UploadImgBegin(r)
  <2>1. PICK u \in users, t \in ImgType : Begin(r, u.uid, {t}, "saving")
    BY <1>9 DEF UploadImgBegin
  <2> QED
    BY <1>0, <1>1, <1>3, <1>4, <2>1, TypeBegin
<1>10. CASE SaveCode(r)
  <2>1. arg' \in [Req -> Carried] /\ via' \in [Req -> Req \cup {None}]
    BY <1>0, <1>4, <1>10 DEF SaveCode, RequestTypes
  <2>2. \E l \in Place : Goto(r, l)
    BY <1>1, <1>2, <1>10 DEF SaveCode
  <2> QED
    BY <1>0, <2>1, <2>2, TypeGoto
<1>11. CASE GetCode(r)
  <2>1. key[r] \in Email
    BY <1>11 DEF GetCode, Labels, LabelOf
  <2>2. code[key[r]] # None => code[key[r]].by \in Req
    BY <2>1 DEF TypeOK
  <2>3. arg' \in [Req -> Carried] /\ via' \in [Req -> Req \cup {None}]
    BY <1>0, <1>11, <2>2 DEF GetCode, RequestTypes
  <2>4. \E l \in Place : Goto(r, l)
    BY <1>1, <1>2, <1>11 DEF GetCode
  <2> QED
    BY <1>0, <2>3, <2>4, TypeGoto
<1>12. CASE \/ CheckEmail(r) \/ SetSendLimit(r) \/ SendQQEmail(r) \/ CreateUser(r)
            \/ RegisterCommit(r) \/ UpdatePassword(r) \/ DeleteCode(r) \/ UpdateInfo(r)
            \/ SaveThumb(r) \/ UpdateImgUrl(r) \/ RequestError(r)
  <2>1. arg' \in [Req -> Carried] /\ via' \in [Req -> Req \cup {None}]
    BY <1>0, <1>12
    DEF RequestTypes, CheckEmail, SetSendLimit, SendQQEmail, CreateUser, RegisterCommit,
         UpdatePassword, DeleteCode, UpdateInfo, SaveThumb, UpdateImgUrl, RequestError
  <2>2. CASE CheckEmail(r) \/ SetSendLimit(r) \/ SendQQEmail(r) \/ CreateUser(r)
    <3>1. \E l \in Place : Goto(r, l)
      BY <1>1, <1>2, <2>2 DEF CheckEmail, SetSendLimit, SendQQEmail, CreateUser
    <3> QED
      BY <1>0, <2>1, <3>1, TypeGoto
  <2>3. CASE RegisterCommit(r) \/ UpdatePassword(r) \/ DeleteCode(r)
    <3>1. \E l \in Place : Goto(r, l)
      BY <1>1, <1>2, <2>3 DEF RegisterCommit, UpdatePassword, DeleteCode
    <3> QED
      BY <1>0, <2>1, <3>1, TypeGoto
  <2>4. CASE UpdateInfo(r) \/ SaveThumb(r) \/ UpdateImgUrl(r) \/ RequestError(r)
    <3>1. \E l \in Place : Goto(r, l)
      BY <1>1, <1>2, <2>4 DEF UpdateInfo, SaveThumb, UpdateImgUrl, RequestError
    <3> QED
      BY <1>0, <2>1, <3>1, TypeGoto
  <2> QED
    BY <1>12, <2>2, <2>3, <2>4
<1> QED
  BY <1>5, <1>6, <1>7, <1>8, <1>9, <1>10, <1>11, <1>12
  DEF Act, SendCode, Register, ResetPwd, Profile

\* Steps of requests keep the types.
LEMMA TypeAct ==
  ASSUME TypeOK, Labels, NEW r \in Req, Act(r)
  PROVE  TypeOK'
<1>1. CASE UNCHANGED <<redis, tables, file, history>>
  BY <1>1, TypeRequest DEF TypeOK, RequestTypes, Place, Carried, redis, tables, history
<1>2. CASE SaveCode(r)
  <2>1. code' \in [Email -> [val : Code, by : Req] \cup {None}]
    <3>1. key[r] \in Email
      BY <1>2 DEF SaveCode, Labels, LabelOf
    <3>2. PICK c \in Code : code' = [code EXCEPT ![key[r]] = [val |-> c, by |-> r]]
      BY <1>2 DEF SaveCode
    <3> QED
      BY <3>1, <3>2 DEF TypeOK
  <2> QED
    BY <1>2, <2>1, TypeRequest DEF SaveCode, TypeOK, RequestTypes, Place, Carried, tables, history
<1>3. CASE SetSendLimit(r)
  <2>1. limit' \subseteq Email
    BY <1>3 DEF SetSendLimit, TypeOK, Labels, LabelOf, Saved
  <2> QED
    BY <1>3, <2>1, TypeRequest
    DEF SetSendLimit, TypeOK, RequestTypes, Place, Carried, tables, history
<1>4. CASE CreateUser(r) \/ SaveThumb(r)
  <2>1. file' \subseteq {"qr", "thumb"} \X Uid
    BY <1>4 DEF CreateUser, SaveThumb, TypeOK, Uid
  <2> QED
    BY <1>4, <2>1, TypeRequest
    DEF CreateUser, SaveThumb, TypeOK, RequestTypes, Place, Carried, redis, tables, history
<1>5. CASE RegisterCommit(r)
  <2>1. NewUser(r, key[r]) \in [uid : Uid, email : Email, col : [Column -> Uid]]
    BY <1>5 DEF RegisterCommit, NewUser, Labels, LabelOf, Granted, Uid
  <2>2. users' \subseteq [uid : Uid, email : Email, col : [Column -> Uid]] /\ category' \subseteq Uid
    BY <1>5, <2>1 DEF RegisterCommit, TypeOK, Uid
  <2> QED
    BY <1>5, <2>2, TypeRequest
    DEF RegisterCommit, TypeOK, RequestTypes, Place, Carried, redis, history
<1>6. CASE UpdatePassword(r) \/ UpdateInfo(r) \/ UpdateImgUrl(r)
  <2>1. users' \subseteq [uid : Uid, email : Email, col : [Column -> Uid]]
    BY <1>6, SetColumnType DEF UpdatePassword, UpdateInfo, UpdateImgUrl, TypeOK
  <2> QED
    BY <1>6, <2>1, TypeRequest DEF UpdatePassword, UpdateInfo, UpdateImgUrl, TypeOK,
         RequestTypes, Place, Carried, redis, history
<1>7. CASE DeleteCode(r)
  <2>1. code' \in [Email -> [val : Code, by : Req] \cup {None}] /\ kept' \subseteq Req
    BY <1>7 DEF DeleteCode, TypeOK
  <2> QED
    BY <1>7, <2>1, TypeRequest DEF DeleteCode, TypeOK, RequestTypes, Place, Carried, tables
<1> QED
  BY <1>1, <1>2, <1>3, <1>4, <1>5, <1>6, <1>7
  DEF Act, SendCode, Register, ResetPwd, Profile, CheckSendLimit, CheckEmail, SendQQEmail,
      RegisterCheckEmail, ResetCheckEmail, GetCode, UpdateInfoBegin, UploadImgBegin, RequestError

\* An expiry touches the codes, the limits and the history only.
LEMMA ExpireLeaves ==
  ASSUME TypeOK, NEW e \in Email, ExpireCode(e) \/ ExpireLimit(e)
  PROVE  /\ UNCHANGED <<tables, file, request, kept>>
         /\ expired \subseteq expired' /\ lapsed \subseteq lapsed'
BY DEF ExpireCode, ExpireLimit

LEMMA TypeExpire ==
  ASSUME TypeOK, NEW e \in Email, ExpireCode(e) \/ ExpireLimit(e)
  PROVE  TypeOK'
<1>1. CASE ExpireCode(e)
  <2>1. code[e].by \in Req
    BY <1>1 DEF ExpireCode, TypeOK
  <2>2. code' \in [Email -> [val : Code, by : Req] \cup {None}] /\ expired' \subseteq Req
    BY <1>1, <2>1 DEF ExpireCode, TypeOK
  <2> QED
    BY <1>1, <2>2 DEF ExpireCode, TypeOK, tables, request
<1>2. CASE ExpireLimit(e)
  BY <1>2 DEF ExpireLimit, TypeOK, tables, request
<1> QED
  BY <1>1, <1>2

-----------------------------------------------------------------------------
(* What a step of a request does to the rows and to the codes. *)

\* v is row u, with at most the columns replaced that request r updates.
Rewritten(r, u, v) ==
  /\ v.uid = u.uid /\ v.email = u.email
  /\ \A k \in Column :
       \/ v.col[k] = u.col[k]
          /\ ~(pc[r] = "update" /\ pc'[r] = "resetDelete" /\ k = "password" /\ u.email = key[r])
          /\ ~(pc'[r] \in {"updated", "applied"} /\ k \in arg[r] /\ u.uid = key[r])
       \/ /\ v.col[k] = r
          /\ \/ pc[r] = "update" /\ k = "password" /\ u.email = key[r]
             \/ pc[r] \in {"info", "uploaded"} /\ k \in arg[r] /\ u.uid = key[r]

\* An UPDATE replaces rows one by one.
LEMMA SetColumnRewrites ==
  ASSUME users \subseteq [uid : Uid, email : Email, col : [Column -> Uid]],
         NEW us \in SUBSET users, NEW ks, NEW r \in Req, SetColumn(us, ks, r)
  PROVE  /\ \A v \in users' : \E u \in users :
              /\ v.uid = u.uid /\ v.email = u.email
              /\ \A k \in Column : v.col[k] = IF u \in us /\ k \in ks THEN r ELSE u.col[k]
         /\ \A u \in users : \E v \in users' : v.uid = u.uid /\ v.email = u.email
<1> DEFINE New(u) == [u EXCEPT !.col = [k \in Column |-> IF k \in ks THEN r ELSE @[k]]]
<1>1. users' = (users \ us) \cup {New(u) : u \in us}
  BY DEF SetColumn
<1>2. \A u \in us : /\ New(u).uid = u.uid /\ New(u).email = u.email
                    /\ \A k \in Column : New(u).col[k] = IF k \in ks THEN r ELSE u.col[k]
  OBVIOUS
<1> HIDE DEF New
<1>3. ASSUME NEW v \in users'
      PROVE  \E u \in users :
               /\ v.uid = u.uid /\ v.email = u.email
               /\ \A k \in Column : v.col[k] = IF u \in us /\ k \in ks THEN r ELSE u.col[k]
  <2>1. CASE v \in users \ us
    BY <2>1
  <2>2. CASE \E u \in us : v = New(u)
    BY <1>2, <2>2
  <2> QED
    BY <1>1, <2>1, <2>2
<1>4. ASSUME NEW u \in users
      PROVE  \E v \in users' : v.uid = u.uid /\ v.email = u.email
  <2>1. CASE u \in us
    BY <1>1, <1>2, <2>1
  <2>2. CASE u \notin us
    BY <1>1, <2>2
  <2> QED
    BY <2>1, <2>2
<1> QED
  BY <1>3, <1>4

\* Rows are rewritten by the request that updates them, or are the one committed.
LEMMA RowsAct ==
  ASSUME TypeOK, Labels, NEW r \in Req, Act(r)
  PROVE  /\ category \subseteq category'
         /\ \A u \in users : \E v \in users' : v.uid = u.uid /\ v.email = u.email
         /\ \A v \in users' :
              \/ \E u \in users : Rewritten(r, u, v)
              \/ pc[r] = "commit" /\ v = NewUser(r, key[r]) /\ r \in category'
         /\ pc[r] = "commit" /\ pc'[r] = "regDelete" => NewUser(r, key[r]) \in users'
<1>1. CASE UpdatePassword(r)
  <2> DEFINE us == {u \in users : u.email = key[r]}
  <2>1. SetColumn(us, {"password"}, r) /\ pc[r] = "update" /\ pc'[r] \in {"resetDelete", "failed"}
    BY <1>1 DEF UpdatePassword, Goto, TypeOK
  <2>2. users \subseteq [uid : Uid, email : Email, col : [Column -> Uid]] /\ us \subseteq users
    BY DEF TypeOK
  <2>3. /\ \A v \in users' : \E u \in users :
             /\ v.uid = u.uid /\ v.email = u.email
             /\ \A k \in Column : v.col[k] = IF u \in us /\ k \in {"password"} THEN r ELSE u.col[k]
        /\ \A u \in users : \E v \in users' : v.uid = u.uid /\ v.email = u.email
    BY <2>1, <2>2, SetColumnRewrites
  <2>4. ASSUME NEW v \in users' PROVE \E u \in users : Rewritten(r, u, v)
    BY <2>1, <2>3 DEF Rewritten
  <2> QED
    BY <1>1, <2>1, <2>3, <2>4 DEF UpdatePassword
<1>2. CASE UpdateInfo(r) \/ (UpdateImgUrl(r) /\ ~(users' = users /\ pc'[r] = "lost"))
  <2> DEFINE us == {u \in users : u.uid = key[r]}
  <2>1. /\ SetColumn(us, arg[r], r) /\ pc[r] \in {"info", "uploaded"}
        /\ pc'[r] \in {"updated", "failed", "applied", "lost"} /\ category' = category
    BY <1>2 DEF UpdateInfo, UpdateImgUrl, Goto, TypeOK
  <2>2. users \subseteq [uid : Uid, email : Email, col : [Column -> Uid]] /\ us \subseteq users
    BY DEF TypeOK
  <2>3. /\ \A v \in users' : \E u \in users :
             /\ v.uid = u.uid /\ v.email = u.email
             /\ \A k \in Column : v.col[k] = IF u \in us /\ k \in arg[r] THEN r ELSE u.col[k]
        /\ \A u \in users : \E v \in users' : v.uid = u.uid /\ v.email = u.email
    BY <2>1, <2>2, SetColumnRewrites
  <2>4. ASSUME NEW v \in users' PROVE \E u \in users : Rewritten(r, u, v)
    BY <2>1, <2>3 DEF Rewritten
  <2> QED
    BY <2>1, <2>3, <2>4
<1>3. CASE RegisterCommit(r)
  <2>1. \A u \in users : Rewritten(r, u, u)
    BY <1>3 DEF RegisterCommit, Rewritten, Goto, TypeOK
  <2> QED
    BY <1>3, <2>1 DEF RegisterCommit
<1>4. CASE UpdateImgUrl(r) /\ users' = users /\ pc'[r] = "lost"
  <2>1. pc[r] = "uploaded" /\ category' = category
    BY <1>4 DEF UpdateImgUrl
  <2>2. \A u \in users : Rewritten(r, u, u)
    BY <1>4, <2>1 DEF Rewritten
  <2> QED
    BY <1>4, <2>1, <2>2
<1>5. CASE UNCHANGED tables /\ pc[r] \notin {"update", "commit"} /\ pc'[r] \notin {"updated", "applied"}
  <2>1. \A u \in users : Rewritten(r, u, u)
    BY <1>5 DEF Rewritten
  <2> QED
    BY <1>5, <2>1 DEF tables
<1>6. CASE RequestError(r)
  <2>1. pc'[r] \in {"unsent", "failed"} /\ UNCHANGED tables
    BY <1>6 DEF RequestError, Goto, TypeOK
  <2>2. \A u \in users : Rewritten(r, u, u)
    BY <2>1 DEF Rewritten
  <2> QED
    BY <2>1, <2>2 DEF tables
<1>7. CASE CheckSendLimit(r) \/ RegisterCheckEmail(r) \/ ResetCheckEmail(r)
           \/ UpdateInfoBegin(r) \/ UploadImgBegin(r)
  <2>1. pc[r] = "idle" /\ pc'[r] \notin {"updated", "applied"} /\ UNCHANGED tables
    <3>1. UNCHANGED tables /\ pc[r] = "idle"
      BY <1>7 DEF CheckSendLimit, RegisterCheckEmail, ResetCheckEmail, UpdateInfoBegin,
           UploadImgBegin, Begin
    <3> QED
      BY <3>1, Moves
  <2> QED
    BY <1>5, <2>1
<1>8. CASE CheckEmail(r) \/ SaveCode(r) \/ SetSendLimit(r) \/ SendQQEmail(r)
  <2>1. /\ pc[r] \in {"exists", "save", "limit", "mail"}
        /\ pc'[r] \notin {"updated", "applied"} /\ UNCHANGED tables
    BY <1>8 DEF CheckEmail, SaveCode, SetSendLimit, SendQQEmail, Goto, TypeOK
  <2> QED
    BY <1>5, <2>1
<1>9. CASE GetCode(r) \/ CreateUser(r) \/ DeleteCode(r) \/ SaveThumb(r)
  <2>1. /\ pc[r] \notin {"update", "commit"}
        /\ pc'[r] \notin {"updated", "applied"} /\ UNCHANGED tables
    BY <1>9 DEF GetCode, CreateUser, DeleteCode, SaveThumb, Goto, TypeOK
  <2> QED
    BY <1>5, <2>1
<1>10. CASE UpdateImgUrl(r)
  <2>1. pc'[r] \in {"applied", "lost"}
    BY <1>10 DEF UpdateImgUrl, Goto, TypeOK
  <2> QED
    BY <1>2, <1>4, <1>10, <2>1
<1>11. CASE UpdateInfo(r)
  BY <1>2, <1>11
<1> QED
  BY <1>1, <1>3, <1>6, <1>7, <1>8, <1>9, <1>10, <1>11
  DEF Act, SendCode, Register, ResetPwd, Profile

\* A code changes where a request saves or deletes it.
LEMMA CodeAct ==
  ASSUME TypeOK, Labels, NEW r \in Req, Act(r)
  PROVE  \A e \in Email :
           \/ code'[e] = code[e]
           \/ /\ pc[r] = "save" /\ e = key[r] /\ pc'[r] \in Saved
              /\ code'[e] # None /\ code'[e].by = r /\ arg'[r] = {code'[e].val}
           \/ pc[r] \in {"regDelete", "resetDelete"} /\ e = key[r] /\ code'[e] = None
<1>1. CASE SaveCode(r)
  <2>1. PICK c \in Code : /\ arg' = [arg EXCEPT ![r] = {c}]
                          /\ code' = [code EXCEPT ![key[r]] = [val |-> c, by |-> r]]
    BY <1>1 DEF SaveCode
  <2>2. pc[r] = "save" /\ pc'[r] \in Saved
    BY <1>1 DEF SaveCode, Goto, Saved, TypeOK
  <2>4. arg'[r] = {c}
    BY <2>1 DEF TypeOK
  <2>5. ASSUME NEW e \in Email, e = key[r]
        PROVE  code'[e] = [val |-> c, by |-> r] /\ code'[e] # None
    <3>1. code'[e] = [val |-> c, by |-> r]
      BY <2>1, <2>5 DEF TypeOK
    <3>2. [val |-> c, by |-> r] # None
      BY AccountAssumption
    <3> QED
      BY <3>1, <3>2
  <2>6. \A e \in Email : e # key[r] => code'[e] = code[e]
    BY <2>1 DEF TypeOK
  <2> QED
    BY <2>2, <2>4, <2>5, <2>6
<1>2. CASE DeleteCode(r)
  BY <1>2 DEF DeleteCode, TypeOK
<1>3. CASE UNCHANGED code
  BY <1>3
<1> QED
  BY <1>1, <1>2, <1>3
  DEF Act, SendCode, Register, ResetPwd, Profile, CheckSendLimit, CheckEmail, SetSendLimit,
       SendQQEmail,
      RegisterCheckEmail, ResetCheckEmail, GetCode, CreateUser, RegisterCommit, UpdatePassword,
      UpdateInfoBegin, UpdateInfo, UploadImgBegin, SaveThumb, UpdateImgUrl, RequestError, redis

\* How a request comes to write a row, and how it is granted or refused.
LEMMA WriterAct ==
  ASSUME TypeOK, NEW r \in Req, Act(r)
  PROVE  /\ pc'[r] = "resetDelete" => pc[r] = "update"
         /\ pc'[r] = "reset" => pc[r] = "resetDelete"
         /\ pc'[r] \in {"updated", "applied"} => pc[r] \in {"info", "uploaded"}
         /\ pc[r] \in {"info", "uploaded"} => arg'[r] = arg[r]
         /\ pc[r] = "resetDelete" => pc'[r] = "reset"
<1>1. pc[r] \in {"info", "uploaded"} => arg'[r] = arg[r]
  BY DEF Act, SendCode, Register, ResetPwd, Profile, Begin, CheckSendLimit, CheckEmail, SaveCode,
      SetSendLimit, SendQQEmail, RegisterCheckEmail, ResetCheckEmail, GetCode, CreateUser,
      RegisterCommit, UpdatePassword, DeleteCode, UpdateInfoBegin, UpdateInfo, UploadImgBegin,
      SaveThumb, UpdateImgUrl, RequestError, TypeOK
<1> QED
  BY <1>1, Moves DEF TypeOK

\* What a request presented is looked up once.
LEMMA ViaAct ==
  ASSUME TypeOK, NEW r \in Req, Act(r)
  PROVE  \/ via'[r] = via[r]
         \/ /\ pc[r] \in {"regCode", "resetCode"} /\ pc'[r] \in {"create", "update"}
            /\ code[key[r]] # None /\ via'[r] = code[key[r]].by
<1>1. CASE GetCode(r)
  BY <1>1 DEF GetCode, Goto, TypeOK
<1>2. CASE UNCHANGED via
  BY <1>2
<1> QED
  BY <1>1, <1>2
  DEF Act, SendCode, Register, ResetPwd, Profile, CheckSendLimit, CheckEmail, SaveCode,
       SetSendLimit,
      SendQQEmail, RegisterCheckEmail, ResetCheckEmail, CreateUser, RegisterCommit, UpdatePassword,
      DeleteCode, UpdateInfoBegin, UpdateInfo, UploadImgBegin, SaveThumb, UpdateImgUrl, RequestError, Begin

\* A request is told that it ended well after its DEL only.
LEMMA KeptAct ==
  ASSUME TypeOK, Labels, NEW r \in Req, Act(r)
  PROVE  /\ kept \subseteq kept' /\ UNCHANGED <<expired, lapsed>>
         /\ pc'[r] \in {"registered", "reset"} =>
              /\ pc[r] \in {"regDelete", "resetDelete"}
              /\ r \in kept' \/ code' = [code EXCEPT ![key[r]] = None]
<1>1. CASE DeleteCode(r)
  BY <1>1 DEF DeleteCode, TypeOK
<1>2. CASE UNCHANGED history /\ ~DeleteCode(r)
  <2>1. pc[r] \notin {"regDelete", "resetDelete"}
    BY <1>2
    DEF Act, SendCode, Register, ResetPwd, Profile, Begin, CheckSendLimit, CheckEmail, SaveCode,
      SetSendLimit, SendQQEmail, RegisterCheckEmail, ResetCheckEmail, GetCode, CreateUser,
      RegisterCommit, UpdatePassword, UpdateInfoBegin, UpdateInfo, UploadImgBegin, SaveThumb,
      UpdateImgUrl, RequestError
  <2>2. pc'[r] \notin {"registered", "reset"}
    BY <2>1, Moves DEF TypeOK
  <2> QED
    BY <1>2, <2>2 DEF history
<1> QED
  BY <1>1, <1>2
  DEF Act, SendCode, Register, ResetPwd, Profile, CheckSendLimit, CheckEmail, SaveCode,
       SetSendLimit,
      SendQQEmail, RegisterCheckEmail, ResetCheckEmail, GetCode, CreateUser, RegisterCommit,
      UpdatePassword, UpdateInfoBegin, UpdateInfo, UploadImgBegin, SaveThumb, UpdateImgUrl, RequestError

\* Who holds a code or has sent one stays as it is.
LEMMA Stays ==
  ASSUME TypeOK, Labels, NEW r \in Req, Act(r), NEW x \in Req
  PROVE  /\ pc[x] # "idle" => key'[x] = key[x] /\ prior'[x] = prior[x]
         /\ via[x] # None => pc[x] # "idle" /\ via'[x] = via[x]
         /\ pc[x] \in Saved => pc'[x] \in Saved /\ arg'[x] = arg[x] /\ via'[x] = via[x]
         /\ pc[x] \in Ended => pc'[x] = pc[x] /\ arg'[x] = arg[x] /\ via'[x] = via[x]
<1>1. pc[x] # "idle" => key'[x] = key[x] /\ prior'[x] = prior[x]
  BY Own
<1>2. ASSUME via[x] # None PROVE pc[x] # "idle" /\ via'[x] = via[x]
  <2>1. pc[x] \notin {"idle", "regCode", "resetCode"}
    BY <1>2 DEF Labels, LabelOf
  <2>2. via'[r] = via[r] \/ pc[r] \in {"regCode", "resetCode"}
    BY ViaAct
  <2> QED
    BY <2>1, <2>2, Own
<1>3. pc[x] \in Saved => pc'[x] \in Saved /\ arg'[x] = arg[x] /\ via'[x] = via[x]
  BY Own
<1>4. pc[x] \in Ended => pc'[x] = pc[x] /\ arg'[x] = arg[x] /\ via'[x] = via[x]
  BY Own
<1> QED
  BY <1>1, <1>2, <1>3, <1>4

-----------------------------------------------------------------------------
(* An account is complete. *)

LEMMA CompleteAct ==
  ASSUME TypeOK, Labels, AccountIsComplete, NEW r \in Req, Act(r)
  PROVE  AccountIsComplete'
<1> SUFFICES ASSUME NEW v \in users'
             PROVE  /\ v.uid \in category' /\ <<"qr", v.uid>> \in file'
                    /\ \A k \in ImgType : v.col[k] = v.uid \/ <<"thumb", v.col[k]>> \in file'
  BY DEF AccountIsComplete
<1>0. file \subseteq file' /\ category \subseteq category' /\ ImgType \subseteq Column
  BY Own, RowsAct DEF Column
<1>1. CASE \E u \in users : Rewritten(r, u, v)
  <2>1. PICK u \in users : Rewritten(r, u, v)
    BY <1>1
  <2>2. /\ v.uid = u.uid /\ u.uid \in category /\ <<"qr", u.uid>> \in file
    BY <2>1 DEF Rewritten, AccountIsComplete
  <2>3. ASSUME NEW k \in ImgType
        PROVE  v.col[k] = v.uid \/ <<"thumb", v.col[k]>> \in file'
    <3>1. CASE v.col[k] = u.col[k]
      BY <1>0, <2>2, <3>1 DEF AccountIsComplete
    <3>2. CASE v.col[k] = r /\ pc[r] \in {"info", "uploaded"} /\ k \in arg[r]
      <4>1. k \notin Field
        BY AccountAssumption DEF ImgType
      <4>2. <<"thumb", r>> \in file
        BY <3>2, <4>1 DEF Labels, LabelOf
      <4> QED
        BY <1>0, <3>2, <4>2
    <3>3. k # "password"
      BY DEF ImgType
    <3> QED
      BY <1>0, <2>1, <3>1, <3>2, <3>3 DEF Rewritten
  <2> QED
    BY <1>0, <2>2, <2>3
<1>2. CASE pc[r] = "commit" /\ v = NewUser(r, key[r]) /\ r \in category'
  <2>1. v.uid = r /\ \A k \in ImgType : v.col[k] = r
    BY <1>0, <1>2 DEF NewUser
  <2>2. <<"qr", r>> \in file
    BY <1>2 DEF Labels, LabelOf
  <2> QED
    BY <1>0, <1>2, <2>1, <2>2
<1> QED
  BY <1>1, <1>2, RowsAct

-----------------------------------------------------------------------------
(* What a request wrote is not outdated, from its UPDATE on, except by uploads. *)

Written(r, u, k) ==
  \/ pc[r] \in {"resetDelete", "reset"} /\ key[r] = u.email /\ k = "password"
  \/ pc[r] \in {"updated", "applied"} /\ key[r] = u.uid /\ k \in arg[r]

NotOutdated(r, u, k) ==
  u.col[k] = r \/ (u.col[k] \in Req /\ (u.col[k] \in prior[r] => LateUpload(u.col[k], u, k)))

WrittenIsNotOutdated ==
  \A r \in Req, u \in users, k \in Column : Written(r, u, k) => NotOutdated(r, u, k)

LEMMA NotOutdatedAct ==
  ASSUME TypeOK, Labels, PriorAnswered, WrittenIsNotOutdated, NEW r \in Req, Act(r)
  PROVE  WrittenIsNotOutdated'
<1> SUFFICES ASSUME NEW q \in Req, NEW v \in users', NEW k \in Column, Written(q, v, k)'
             PROVE  \/ v.col[k] = q
                    \/ /\ v.col[k] \in Req
                       /\ v.col[k] \in prior'[q] => LateUpload(v.col[k], v, k)'
  BY DEF WrittenIsNotOutdated, NotOutdated
<1>0. pc[q] # "idle" /\ prior'[q] = prior[q]
  <2>1. pc[q] # "idle"
    BY Own, Moves DEF Written
  <2> QED
    BY <2>1, Own
<1>1. r \in prior[q] => pc[r] = "uploaded" /\ pc'[r] \in {"applied", "lost"}
  BY Own, Moves DEF PriorAnswered, Answered
<1>2. CASE v = NewUser(r, key[r]) /\ pc[r] = "commit"
  <2>1. v.col[k] = r
    BY <1>2 DEF NewUser
  <2> QED
    BY <1>0, <1>1, <1>2, <2>1
<1>3. CASE \E u \in users : Rewritten(r, u, v)
  <2>1. PICK u \in users : Rewritten(r, u, v)
    BY <1>3
  <2>2. CASE v.col[k] = r /\ r \in prior[q]
    <3>1. pc[r] = "uploaded" /\ pc'[r] \in {"applied", "lost"} /\ arg[r] \subseteq ImgType
      BY <1>1, <2>2 DEF Labels, LabelOf
    <3>2. CASE k \in arg[r] /\ u.uid = key[r]
      <4>1. key'[r] = key[r] /\ arg'[r] = arg[r] /\ v.uid = u.uid
        BY <2>1, <3>1, Own, WriterAct DEF Rewritten
      <4> QED
        BY <2>2, <3>1, <3>2, <4>1 DEF LateUpload
    <3>3. CASE v.col[k] = u.col[k] /\ q # r
      <4>1. Written(q, u, k)
        BY <2>1, <3>3, Own DEF Written, Rewritten
      <4>2. LateUpload(r, u, k) \/ r = q
        BY <2>2, <3>3, <4>1 DEF WrittenIsNotOutdated, NotOutdated
      <4> QED
        BY <3>1, <3>3, <4>2 DEF LateUpload
    <3> QED
      BY <2>1, <2>2, <3>1, <3>2, <3>3 DEF Rewritten
  <2>3. CASE v.col[k] = r /\ r \notin prior[q]
    BY <1>0, <2>3
  <2>4. CASE v.col[k] # r
    <3>1. v.col[k] = u.col[k] /\ v.uid = u.uid /\ v.email = u.email
      BY <2>1, <2>4 DEF Rewritten
    <3>2. Written(q, u, k)
      BY <2>1, <2>4, <3>1, Own, WriterAct DEF Written, Rewritten
    <3>3. NotOutdated(q, u, k)
      BY <3>2 DEF WrittenIsNotOutdated
    <3>4. CASE u.col[k] = q
      BY <3>1, <3>4
    <3>5. CASE u.col[k] \in Req /\ u.col[k] \notin prior[q]
      BY <1>0, <3>1, <3>5
    <3>6. CASE u.col[k] \in Req /\ LateUpload(u.col[k], u, k)
      <4>1. u.col[k] # r
        BY <2>4, <3>1
      <4> QED
        BY <3>1, <3>6, <4>1, Own DEF LateUpload
    <3> QED
      BY <3>3, <3>4, <3>5, <3>6 DEF NotOutdated
  <2> QED
    BY <2>2, <2>3, <2>4
<1> QED
  BY <1>2, <1>3, RowsAct

-----------------------------------------------------------------------------
(* Codes. *)

\* A stored code is the one drawn by a send for the address.
CodeIsSaved ==
  \A e \in Email : code[e] # None =>
    pc[code[e].by] \in Saved /\ key[code[e].by] = e /\ arg[code[e].by] = {code[e].val}

\* A code that was presented was sent to the address.
ViaIsSaved ==
  \A r \in Req : via[r] # None => pc[via[r]] \in Saved /\ key[via[r]] = key[r]

\* A deleted code stays deleted.
ServedIsGone ==
  \A r \in Req : pc[r] \in {"registered", "reset"} /\ r \notin kept =>
    \A e \in Email : code[e] # None => code[e].by # via[r]

CodeInv == CodeIsSaved /\ ViaIsSaved /\ ServedIsGone /\ CodeServesOnceInSequence

LEMMA CodeIsSavedAct ==
  ASSUME TypeOK, Labels, CodeIsSaved, NEW r \in Req, Act(r)
  PROVE  CodeIsSaved'
<1> SUFFICES ASSUME NEW e \in Email, code'[e] # None
             PROVE  /\ pc'[code'[e].by] \in Saved /\ key'[code'[e].by] = e
                    /\ arg'[code'[e].by] = {code'[e].val}
  BY DEF CodeIsSaved
<1>1. CASE code'[e] = code[e]
  <2>1. code[e].by \in Req
    BY <1>1 DEF TypeOK
  <2>2. pc[code[e].by] # "idle"
    BY <1>1 DEF CodeIsSaved, Saved
  <2> QED
    BY <1>1, <2>1, <2>2, Stays DEF CodeIsSaved
<1>2. CASE pc[r] = "save" /\ e = key[r] /\ pc'[r] \in Saved /\ code'[e].by = r /\ arg'[r] = {code'[e].val}
  BY <1>2, Own
<1> QED
  BY <1>1, <1>2, CodeAct

LEMMA ViaIsSavedAct ==
  ASSUME TypeOK, Labels, CodeIsSaved, ViaIsSaved, NEW r \in Req, Act(r)
  PROVE  ViaIsSaved'
<1> SUFFICES ASSUME NEW q \in Req, via'[q] # None
             PROVE  pc'[via'[q]] \in Saved /\ key'[via'[q]] = key'[q]
  BY DEF ViaIsSaved
<1>1. CASE via[q] # None
  <2>1. via'[q] = via[q] /\ via[q] \in Req /\ key'[q] = key[q]
    BY <1>1, Stays DEF TypeOK
  <2>2. pc[via[q]] \in Saved /\ key[via[q]] = key[q] /\ pc[via[q]] # "idle"
    BY <1>1 DEF ViaIsSaved, Saved
  <2> QED
    BY <2>1, <2>2, Stays
<1>2. CASE via[q] = None
  <2>1. q = r
    BY <1>2, Own
  <2>2. /\ pc[r] \in {"regCode", "resetCode"} /\ code[key[r]] # None /\ via'[r] = code[key[r]].by
    BY <1>2, <2>1, ViaAct
  <2>3. key[r] \in Email /\ key'[r] = key[r]
    BY <2>2, Own DEF Labels, LabelOf
  <2>4. code[key[r]].by \in Req
    BY <2>2, <2>3 DEF TypeOK
  <2>5. pc[code[key[r]].by] \in Saved /\ key[code[key[r]].by] = key[r] /\ pc[code[key[r]].by] # "idle"
    BY <2>2, <2>3 DEF CodeIsSaved, Saved
  <2> QED
    BY <2>1, <2>2, <2>3, <2>4, <2>5, Stays
<1> QED
  BY <1>1, <1>2

LEMMA ServedIsGoneAct ==
  ASSUME TypeOK, Labels, CodeIsSaved, ViaIsSaved, ServedIsGone, NEW r \in Req, Act(r)
  PROVE  ServedIsGone'
<1> SUFFICES ASSUME NEW q \in Req, pc'[q] \in {"registered", "reset"}, q \notin kept',
                    NEW e \in Email, code'[e] # None
             PROVE  code'[e].by # via'[q]
  BY DEF ServedIsGone
<1>0. kept \subseteq kept'
  BY KeptAct
<1>1. CASE pc[q] \in {"registered", "reset"}
  <2>1. via[q] # None /\ via'[q] = via[q]
    BY <1>1, Stays DEF Labels, LabelOf, Granted
  <2>2. CASE code'[e] = code[e]
    BY <1>0, <1>1, <2>1, <2>2 DEF ServedIsGone
  <2>3. CASE pc[r] = "save" /\ code'[e].by = r
    BY <2>1, <2>3 DEF ViaIsSaved, Saved
  <2> QED
    BY <2>2, <2>3, CodeAct
<1>2. CASE pc[q] \notin {"registered", "reset"}
  <2>1. q = r
    BY <1>2, Own
  <2>2. pc[r] \in {"regDelete", "resetDelete"} /\ code' = [code EXCEPT ![key[r]] = None]
    BY <1>2, <2>1, KeptAct
  <2>3. via[r] # None /\ via'[r] = via[r]
    BY <2>2, Stays DEF Labels, LabelOf, Granted
  <2>4. code'[e] = code[e] /\ e # key[r]
    BY <2>2 DEF TypeOK
  <2> QED
    BY <2>1, <2>3, <2>4 DEF CodeIsSaved, ViaIsSaved
<1> QED
  BY <1>1, <1>2

LEMMA ServesOnceAct ==
  ASSUME TypeOK, Labels, PriorAnswered, CodeInv, NEW r \in Req, Act(r)
  PROVE  CodeServesOnceInSequence'
<1> SUFFICES ASSUME NEW p \in Req, NEW q \in Req, pc'[p] \in {"registered", "reset"},
                    p \in prior'[q], p \notin kept'
             PROVE  via'[q] # via'[p]
  BY DEF CodeServesOnceInSequence
<1>0. kept \subseteq kept'
  BY KeptAct
<1>1. pc[p] \in Ended
  <2>0. pc[p] # "uploaded"
    BY Own, Moves
  <2>1. CASE q = r /\ pc[r] = "idle"
    BY <2>0, <2>1, Own DEF Answered
  <2>2. CASE ~(q = r /\ pc[r] = "idle")
    BY <2>0, <2>2, Own DEF PriorAnswered, Answered
  <2> QED
    BY <2>1, <2>2
<1>2. pc[p] = pc'[p] /\ via'[p] = via[p] /\ via[p] # None
  BY <1>1, Stays DEF Labels, LabelOf, Granted
<1>3. CASE pc[q] = "idle"
  <2>1. via'[q] = None
    BY <1>3, Own DEF Labels, LabelOf
  <2> QED
    BY <1>2, <2>1
<1>4. CASE pc[q] # "idle"
  <2>1. p \in prior[q]
    BY <1>4, Stays
  <2>2. CASE via'[q] = via[q]
    BY <1>0, <1>2, <2>1, <2>2 DEF CodeInv, CodeServesOnceInSequence
  <2>3. CASE via'[q] # via[q]
    <3>1. q = r
      BY <2>3, Own
    <3>2. pc[r] \in {"regCode", "resetCode"} /\ code[key[r]] # None /\ via'[r] = code[key[r]].by
      BY <2>3, <3>1, ViaAct
    <3>3. key[r] \in Email
      BY <3>2 DEF Labels, LabelOf
    <3> QED
      BY <1>0, <1>2, <3>1, <3>2, <3>3 DEF CodeInv, ServedIsGone
  <2> QED
    BY <2>2, <2>3
<1> QED
  BY <1>3, <1>4

LEMMA CodeExpire ==
  ASSUME TypeOK, CodeInv, NEW e \in Email, ExpireCode(e) \/ ExpireLimit(e)
  PROVE  CodeInv'
<1>1. UNCHANGED <<pc, key, arg, via, prior, kept>>
  BY ExpireLeaves DEF request
<1>2. \A f \in Email : code'[f] = code[f] \/ code'[f] = None
  BY DEF ExpireCode, ExpireLimit, TypeOK
<1>3. CodeIsSaved' /\ ViaIsSaved'
  BY <1>1, <1>2 DEF CodeInv, CodeIsSaved, ViaIsSaved
<1>4. ServedIsGone' /\ CodeServesOnceInSequence'
  BY <1>1, <1>2 DEF CodeInv, ServedIsGone, CodeServesOnceInSequence
<1> QED
  BY <1>3, <1>4 DEF CodeInv

\* A code is saved by a request that was past the checks of SendCode.
LEMMA SaverAct ==
  ASSUME TypeOK, Labels, NEW r \in Req, Act(r), pc'[r] \in Saved, pc[r] \notin Saved
  PROVE  /\ pc[r] = "save"
         /\ code'[key[r]] # None /\ code'[key[r]].by = r /\ arg'[r] = {code'[key[r]].val}
<1>1. SaveCode(r)
  <2>1. pc[r] = "save" /\ pc'[r] # "failed"
    BY Moves DEF TypeOK, Saved
  <2> QED
    BY <2>1
    DEF Act, SendCode, Register, ResetPwd, Profile, Begin, CheckSendLimit, CheckEmail, SetSendLimit,
      SendQQEmail, RegisterCheckEmail, ResetCheckEmail, GetCode, CreateUser, RegisterCommit,
      UpdatePassword, DeleteCode, UpdateInfoBegin, UpdateInfo, UploadImgBegin, SaveThumb,
      UpdateImgUrl, RequestError, Goto, TypeOK
<1>2. pc[r] = "save"
  BY <1>1 DEF SaveCode
<1>3. key[r] \in Email
  BY <1>2 DEF Labels, LabelOf
<1>4. PICK c \in Code : /\ arg' = [arg EXCEPT ![r] = {c}]
                        /\ code' = [code EXCEPT ![key[r]] = [val |-> c, by |-> r]]
  BY <1>1 DEF SaveCode
<1>5. code'[key[r]] = [val |-> c, by |-> r] /\ arg'[r] = {c}
  BY <1>3, <1>4 DEF TypeOK
<1>6. [val |-> c, by |-> r] # None
  BY AccountAssumption
<1> QED
  BY <1>2, <1>5, <1>6

-----------------------------------------------------------------------------
(* Send limits. *)

\* The address of a mail is limited until the limit lapses.
MailIsLimited ==
  \A s \in Req : pc[s] \in {"mail", "sent"} /\ s \notin lapsed => key[s] \in limit

\* A send gets past the check only when the limit of the mail has lapsed.
SendIsLate ==
  \A s, r \in Req :
    /\ pc[s] = "sent" /\ s \in prior[r] /\ key[s] = key[r]
    /\ pc[r] \in {"exists", "save"} \cup Saved
    => s \in lapsed

LimitInv == MailIsLimited /\ SendIsLate

\* How a request comes to send, and to mail.
LEMMA SenderAct ==
  ASSUME TypeOK, Labels, NEW r \in Req, Act(r)
  PROVE  /\ limit \subseteq limit'
         /\ pc'[r] \in {"mail", "sent"} => 
              pc[r] \in {"mail", "sent"} \/ (pc[r] = "limit" /\ key[r] \in limit')
         /\ pc'[r] \in {"exists", "save"} \cup Saved =>
              \/ pc[r] \in {"exists", "save"} \cup Saved
              \/ pc[r] = "idle" /\ key'[r] \notin limit
<1>1. CASE CheckSendLimit(r)
  <2>1. PICK e \in Email, t \in ReqType :
          Begin(r, e, {t}, IF e \in limit THEN "failed" ELSE "exists")
    BY <1>1 DEF CheckSendLimit
  <2>2. key'[r] = e /\ pc[r] = "idle" /\ pc'[r] = IF e \in limit THEN "failed" ELSE "exists"
    BY <2>1, BeginIs
  <2>3. limit' = limit
    BY <1>1 DEF CheckSendLimit, redis
  <2> QED
    BY <2>2, <2>3 DEF Saved
<1>2. CASE RegisterCheckEmail(r) \/ ResetCheckEmail(r)
  <2>1. pc'[r] \in {"failed", "regCode", "resetCode"}
    BY <1>2, BeginIs DEF RegisterCheckEmail, ResetCheckEmail
  <2>2. limit' = limit
    BY <1>2 DEF RegisterCheckEmail, ResetCheckEmail, redis
  <2> QED
    BY <2>1, <2>2 DEF Saved
<1>3. CASE UpdateInfoBegin(r) \/ UploadImgBegin(r)
  <2>1. pc'[r] \in {"failed", "info"} \/ UploadImgBegin(r)
    BY <1>3, BeginIs DEF UpdateInfoBegin
  <2>2. pc'[r] \in {"failed", "info", "saving"}
    BY <2>1, BeginIs DEF UploadImgBegin
  <2>3. limit' = limit
    BY <1>3 DEF UpdateInfoBegin, UploadImgBegin, redis
  <2> QED
    BY <2>2, <2>3 DEF Saved
<1> USE DEF Goto, TypeOK, Saved, redis
<1>4. CASE CheckEmail(r) \/ SaveCode(r) \/ SendQQEmail(r)
  BY <1>4 DEF CheckEmail, SaveCode, SendQQEmail
<1>5. CASE SetSendLimit(r)
  BY <1>5 DEF SetSendLimit
<1>6. CASE GetCode(r) \/ CreateUser(r) \/ RegisterCommit(r)
  BY <1>6 DEF GetCode, CreateUser, RegisterCommit
<1>7. CASE UpdatePassword(r) \/ DeleteCode(r)
  BY <1>7 DEF UpdatePassword, DeleteCode
<1>8. CASE UpdateInfo(r) \/ SaveThumb(r) \/ UpdateImgUrl(r) \/ RequestError(r)
  BY <1>8 DEF UpdateInfo, SaveThumb, UpdateImgUrl, RequestError
<1> QED
  BY <1>1, <1>2, <1>3, <1>4, <1>5, <1>6, <1>7, <1>8 DEF Act, SendCode, Register, ResetPwd, Profile

LEMMA LimitAct ==
  ASSUME TypeOK, Labels, PriorAnswered, LimitInv, NEW r \in Req, Act(r)
  PROVE  LimitInv'
<1>0. limit \subseteq limit' /\ lapsed' = lapsed
  BY SenderAct, KeptAct
<1>1. ASSUME NEW s \in Req, pc'[s] \in {"mail", "sent"}, s \notin lapsed'
      PROVE  key'[s] \in limit'
  <2>1. CASE pc[s] \in {"mail", "sent"}
    <3>1. key'[s] = key[s]
      BY <2>1, Stays
    <3> QED
      BY <1>0, <1>1, <2>1, <3>1 DEF LimitInv, MailIsLimited
  <2>2. CASE pc[s] \notin {"mail", "sent"}
    <3>1. s = r
      BY <1>1, <2>2, Own
    <3>2. key[r] \in limit'
      BY <1>1, <2>2, <3>1, SenderAct
    <3>3. key'[r] = key[r]
      <4>1. pc[r] = "limit"
        BY <1>1, <2>2, <3>1, SenderAct
      <4> QED
        BY <4>1, Stays
    <3> QED
      BY <3>1, <3>2, <3>3
  <2> QED
    BY <2>1, <2>2
<1>2. ASSUME NEW s \in Req, NEW q \in Req, pc'[s] = "sent", s \in prior'[q], key'[s] = key'[q],
             pc'[q] \in {"exists", "save"} \cup Saved
      PROVE  s \in lapsed'
  <2>1. pc[s] \in Ended
    <3>0. pc[s] # "uploaded"
      BY <1>2, Own, Moves
    <3>1. CASE q = r /\ pc[r] = "idle"
      BY <1>2, <3>0, <3>1, Own DEF Answered
    <3>2. CASE ~(q = r /\ pc[r] = "idle")
      BY <1>2, <3>0, <3>2, Own DEF PriorAnswered, Answered
    <3> QED
      BY <3>1, <3>2
  <2>2. pc[s] = "sent" /\ key'[s] = key[s]
    BY <1>2, <2>1, Stays DEF Ended
  <2>3. CASE pc[q] \in {"exists", "save"} \cup Saved
    <3>1. key'[q] = key[q] /\ prior'[q] = prior[q]
      BY <2>3, Stays DEF Saved
    <3> QED
      BY <1>0, <1>2, <2>2, <2>3, <3>1 DEF LimitInv, SendIsLate
  <2>4. CASE pc[q] \notin {"exists", "save"} \cup Saved
    <3>1. q = r
      BY <1>2, <2>4, Own
    <3>2. key'[r] \notin limit
      BY <1>2, <2>4, <3>1, SenderAct
    <3> QED
      BY <1>0, <1>2, <2>2, <3>1, <3>2 DEF LimitInv, MailIsLimited
  <2> QED
    BY <2>3, <2>4
<1> QED
  BY <1>1, <1>2 DEF LimitInv, MailIsLimited, SendIsLate

LEMMA LimitExpire ==
  ASSUME TypeOK, LimitInv, NEW e \in Email, ExpireCode(e) \/ ExpireLimit(e)
  PROVE  LimitInv'
<1>1. UNCHANGED <<pc, key, prior>> /\ lapsed \subseteq lapsed'
  BY ExpireLeaves DEF request
<1>2. MailIsLimited'
  <2>1. CASE ExpireCode(e)
    BY <1>1, <2>1 DEF ExpireCode, LimitInv, MailIsLimited
  <2>2. CASE ExpireLimit(e)
    BY <1>1, <2>2 DEF ExpireLimit, LimitInv, MailIsLimited
  <2> QED
    BY <2>1, <2>2
<1>3. SendIsLate'
  BY <1>1 DEF LimitInv, SendIsLate
<1> QED
  BY <1>2, <1>3 DEF LimitInv

-----------------------------------------------------------------------------
(* A mailed code is accepted. *)

\* Another request for the address, begun before the mail of s was sent,
\* has stored a code or used one.
Overlapped(s) ==
  \E x \in Req \ {s} : /\ key[x] = key[s] /\ x \notin prior[s]
                       /\ via[x] # None \/ pc[x] \in Saved

CodeLasts ==
  \A s \in Req : pc[s] \in Saved =>
    \/ code[key[s]] # None /\ code[key[s]].by = s /\ arg[s] = {code[key[s]].val}
    \/ s \in expired
    \/ Overlapped(s)

MailInv == CodeLasts /\ MailedCodeIsAccepted

\* An overlapping request stays one.
LEMMA OverlapStays ==
  ASSUME TypeOK, Labels, NEW r \in Req, Act(r), NEW s \in Req, pc[s] \in Saved, Overlapped(s)
  PROVE  Overlapped(s)'
<1>1. PICK x \in Req \ {s} : /\ key[x] = key[s] /\ x \notin prior[s]
                             /\ via[x] # None \/ pc[x] \in Saved
  BY DEF Overlapped
<1>2. pc[s] # "idle" /\ pc[x] # "idle"
  BY <1>1, Stays DEF Saved
<1>3. key'[s] = key[s] /\ prior'[s] = prior[s] /\ key'[x] = key[x]
  BY <1>2, Stays
<1>4. via'[x] # None \/ pc'[x] \in Saved
  BY <1>1, Stays
<1> QED
  BY <1>1, <1>3, <1>4 DEF Overlapped

LEMMA CodeLastsAct ==
  ASSUME TypeOK, Labels, PriorAnswered, CodeLasts, NEW r \in Req, Act(r)
  PROVE  CodeLasts'
<1> SUFFICES ASSUME NEW s \in Req, pc'[s] \in Saved
             PROVE  \/ /\ code'[key'[s]] # None /\ code'[key'[s]].by = s
                       /\ arg'[s] = {code'[key'[s]].val}
                    \/ s \in expired'
                    \/ Overlapped(s)'
  BY DEF CodeLasts
<1>0. expired' = expired
  BY KeptAct
<1>1. CASE pc[s] \in Saved
  <2>1. key'[s] = key[s] /\ prior'[s] = prior[s] /\ arg'[s] = arg[s] /\ key[s] \in Email
    BY <1>1, Stays DEF Saved, Labels, LabelOf
  <2>2. CASE s \in expired
    BY <1>0, <2>2
  <2>3. CASE Overlapped(s)
    BY <1>1, <2>3, OverlapStays
  <2>4. CASE code[key[s]] # None /\ code[key[s]].by = s /\ arg[s] = {code[key[s]].val}
    <3>1. CASE code'[key[s]] = code[key[s]]
      BY <2>1, <2>4, <3>1
    <3>2. CASE code'[key[s]] # code[key[s]]
      <4>1. /\ pc[r] \in {"save", "regDelete", "resetDelete"} /\ key[r] = key[s]
            /\ pc[r] = "save" => pc'[r] \in Saved
        BY <2>1, <3>2, CodeAct
      <4>2. r # s /\ r \notin prior[s] /\ key'[r] = key[r]
        BY <1>1, <4>1, Stays DEF Saved, PriorAnswered, Answered, Ended
      <4>3. via'[r] # None \/ pc'[r] \in Saved
        BY <4>1, Stays DEF Labels, LabelOf, Granted
      <4> QED
        BY <2>1, <4>1, <4>2, <4>3 DEF Overlapped
    <3> QED
      BY <3>1, <3>2
  <2> QED
    BY <1>1, <2>2, <2>3, <2>4 DEF CodeLasts
<1>2. CASE pc[s] \notin Saved
  <2>1. s = r
    BY <1>2, Own
  <2>2. pc[r] = "save"
    BY <1>2, <2>1, SaverAct
  <2>3. key'[r] = key[r] /\ key[r] \in Email
    BY <2>2, Stays DEF Labels, LabelOf
  <2>4. code'[key[r]] # None /\ code'[key[r]].by = r /\ arg'[r] = {code'[key[r]].val}
    BY <1>2, <2>1, <2>2, SaverAct
  <2> QED
    BY <2>1, <2>3, <2>4
<1> QED
  BY <1>1, <1>2

\* A code is refused when it is not the stored one.
LEMMA RefusedAct ==
  ASSUME TypeOK, NEW r \in Req, Act(r), pc'[r] = "refused"
  PROVE  /\ pc[r] \in {"regCode", "resetCode"} /\ arg'[r] = arg[r]
         /\ code[key[r]] # None => code[key[r]].val \notin arg[r]
<1>1. pc[r] \in {"regCode", "resetCode"}
  BY Moves DEF TypeOK
<1>2. GetCode(r)
  BY <1>1
  DEF Act, SendCode, Register, ResetPwd, Profile, Begin, CheckSendLimit, CheckEmail, SaveCode,
      SetSendLimit, SendQQEmail, RegisterCheckEmail, ResetCheckEmail, CreateUser, RegisterCommit,
      UpdatePassword, DeleteCode, UpdateInfoBegin, UpdateInfo, UploadImgBegin, SaveThumb,
      UpdateImgUrl, RequestError, Goto, TypeOK
<1> QED
  BY <1>1, <1>2 DEF GetCode, Goto, TypeOK

LEMMA MailedAct ==
  ASSUME TypeOK, Labels, PriorAnswered, MailInv, NEW r \in Req, Act(r)
  PROVE  MailedCodeIsAccepted'
<1> DEFINE Other(s, q, x) ==
      /\ x # q /\ key[x] = key[s] /\ x \notin prior[s]
      /\ via[x] # None \/ pc[x] \in Saved
<1> SUFFICES ASSUME NEW s \in Req, NEW q \in Req, pc'[s] = "sent", s \in prior'[q],
                    key'[s] = key'[q], pc'[q] = "refused", arg'[q] = arg'[s]
             PROVE  s \in expired' \/ \E x \in Req \ {s} : Other(s, q, x)'
  BY DEF MailedCodeIsAccepted, Saved
<1>0. expired' = expired
  BY KeptAct
<1>1. pc[q] # "idle"
  BY RefusedAct, Own
<1>2. s \in prior[q] /\ key'[q] = key[q]
  BY <1>1, Stays
<1>3. pc[s] = "sent" /\ key'[s] = key[s] /\ arg'[s] = arg[s] /\ prior'[s] = prior[s]
  <2>1. pc[s] \in Answered /\ pc[s] # "uploaded"
    BY <1>2, Own, Moves DEF PriorAnswered
  <2> QED
    BY <2>1, Stays DEF Answered, Ended
<1>4. ASSUME NEW x \in Req \ {s}, Other(s, q, x) PROVE Other(s, q, x)'
  <2>1. pc[x] # "idle"
    BY <1>4, Stays DEF Saved
  <2>2. key'[x] = key[x]
    BY <2>1, Stays
  <2>3. via'[x] # None \/ pc'[x] \in Saved
    BY <1>4, Stays
  <2> QED
    BY <1>3, <1>4, <2>2, <2>3
<1>5. s \in expired \/ \E x \in Req \ {s} : Other(s, q, x)
  <2>1. CASE pc[q] = "refused"
    <3>1. arg'[q] = arg[q]
      BY <2>1, Stays DEF Ended
    <3> QED
      BY <1>2, <1>3, <2>1, <3>1 DEF MailInv, MailedCodeIsAccepted, Saved
  <2>2. CASE pc[q] # "refused"
    <3>1. q = r
      BY <2>2, Own
    <3>2. /\ pc[q] \in {"regCode", "resetCode"} /\ arg'[q] = arg[q]
          /\ code[key[q]] # None => code[key[q]].val \notin arg[q]
      BY <3>1, RefusedAct
    <3>3. via[q] = None /\ pc[q] \notin Saved
      BY <3>2 DEF Labels, LabelOf, Saved
    <3>4. s \in expired \/ Overlapped(s)
      BY <1>2, <1>3, <3>2 DEF MailInv, CodeLasts, Saved
    <3> QED
      BY <3>3, <3>4 DEF Overlapped
  <2> QED
    BY <2>1, <2>2
<1> HIDE DEF Other
<1> QED
  BY <1>0, <1>4, <1>5

LEMMA MailExpire ==
  ASSUME TypeOK, Labels, MailInv, NEW e \in Email, ExpireCode(e) \/ ExpireLimit(e)
  PROVE  MailInv'
<1>1. UNCHANGED <<pc, key, arg, via, prior>> /\ expired \subseteq expired'
  BY ExpireLeaves DEF request
<1>2. ASSUME NEW s \in Req, pc[s] \in Saved
      PROVE  \/ code'[key[s]] # None /\ code'[key[s]].by = s /\ arg[s] = {code'[key[s]].val}
             \/ s \in expired'
             \/ Overlapped(s)
  <2>1. key[s] \in Email
    BY <1>2 DEF Labels, LabelOf
  <2>2. \/ code'[key[s]] = code[key[s]]
        \/ code[key[s]].by \in expired'
    BY <2>1 DEF ExpireCode, ExpireLimit, TypeOK
  <2> QED
    BY <1>1, <1>2, <2>2 DEF MailInv, CodeLasts
<1>3. CodeLasts'
  BY <1>1, <1>2 DEF CodeLasts, Overlapped
<1>4. MailedCodeIsAccepted'
  BY <1>1 DEF MailInv, MailedCodeIsAccepted
<1> QED
  BY <1>3, <1>4 DEF MailInv

-----------------------------------------------------------------------------
(* Registered accounts. *)

OneAccount == \A u, v \in users : u.email = v.email => u.uid = v.uid

\* The unique email holds the address for the transaction that inserted it.
CommitIsAlone ==
  \A r \in Req : pc[r] = "commit" =>
    /\ ~IsEmailExists(key[r])
    /\ \A q \in Req : pc[q] = "commit" /\ key[q] = key[r] => q = r

RegisteredHasRow ==
  \A r \in Req : pc[r] \in {"regDelete", "registered"} =>
    \E u \in users : u.uid = r /\ u.email = key[r]

PasswordIsGranted ==
  \A u \in users : u.uid \in Req =>
    LET w == u.col["password"] IN w \in Req /\ key[w] = u.email /\ via[w] # None

RegisterInv == OneAccount /\ CommitIsAlone /\ RegisteredHasRow /\ PasswordIsGranted

\* How a registration proceeds.
LEMMA RegistererAct ==
  ASSUME TypeOK, NEW r \in Req, Act(r)
  PROVE  /\ pc'[r] = "commit" =>
              /\ pc[r] = "create" /\ ~IsEmailExists(key[r])
              /\ \A q \in Req : pc[q] = "commit" => key[q] # key[r]
         /\ pc'[r] = "regDelete" => pc[r] = "commit"
         /\ pc'[r] = "registered" => pc[r] = "regDelete"
<1>1. ASSUME pc'[r] = "commit"
      PROVE  CreateUser(r)
  <2>1. pc[r] = "create"
    BY <1>1, Moves DEF TypeOK
  <2> QED
    BY <1>1, <2>1
    DEF Act, SendCode, Register, ResetPwd, Profile, Begin, CheckSendLimit, CheckEmail, SaveCode,
      SetSendLimit, SendQQEmail, RegisterCheckEmail, ResetCheckEmail, GetCode, RegisterCommit,
      UpdatePassword, DeleteCode, UpdateInfoBegin, UpdateInfo, UploadImgBegin, SaveThumb,
      UpdateImgUrl, RequestError, Goto, TypeOK
<1>2. CreateUser(r) /\ pc'[r] = "commit" =>
        ~IsEmailExists(key[r]) /\ \A q \in Req : pc[q] = "commit" => key[q] # key[r]
  BY DEF CreateUser, Goto, TypeOK
<1> QED
  BY <1>1, <1>2, Moves DEF TypeOK

\* Every row is an earlier one of the same account, or the one committed.
LEMMA RowOrigin ==
  ASSUME TypeOK, Labels, NEW r \in Req, Act(r), NEW v \in users'
  PROVE  \/ \E u \in users : u.uid = v.uid /\ u.email = v.email
         \/ pc[r] = "commit" /\ v = NewUser(r, key[r])
BY RowsAct DEF Rewritten

LEMMA RegisterAct ==
  ASSUME TypeOK, Labels, RegisterInv, NEW r \in Req, Act(r)
  PROVE  RegisterInv'
<1>1. OneAccount'
  <2> SUFFICES ASSUME NEW u \in users', NEW v \in users', u.email = v.email
               PROVE  u.uid = v.uid
    BY DEF OneAccount
  <2>1. pc[r] = "commit" => \A w \in users : w.email # key[r]
    BY DEF RegisterInv, CommitIsAlone, IsEmailExists
  <2>2. NewUser(r, key[r]).uid = r /\ NewUser(r, key[r]).email = key[r]
    BY DEF NewUser
  <2> QED
    BY <2>1, <2>2, RowOrigin DEF RegisterInv, OneAccount
<1>2. CommitIsAlone'
  <2> SUFFICES ASSUME NEW q \in Req, pc'[q] = "commit"
               PROVE  /\ \A v \in users' : v.email # key'[q]
                      /\ \A p \in Req : pc'[p] = "commit" /\ key'[p] = key'[q] => p = q
    BY DEF CommitIsAlone, IsEmailExists
  <2>1. key'[q] = key[q] /\ \A p \in Req : pc'[p] = "commit" => key'[p] = key[p]
    BY Stays, RegistererAct, Own
  <2>2. \A v \in users : v.email # key[q]
    BY RegistererAct, Own DEF RegisterInv, CommitIsAlone, IsEmailExists
  <2>3. ASSUME NEW p \in Req, pc'[p] = "commit", key[p] = key[q] PROVE p = q
    <3>1. CASE p = r /\ q # r
      <4>1. pc[q] = "commit"
        BY <3>1, Own
      <4> QED
        BY <2>3, <3>1, <4>1, RegistererAct
    <3>2. CASE q = r /\ p # r
      <4>1. pc[p] = "commit"
        BY <2>3, <3>2, Own
      <4> QED
        BY <2>3, <3>2, <4>1, RegistererAct
    <3>3. CASE p # r /\ q # r
      <4>1. pc[p] = "commit" /\ pc[q] = "commit"
        BY <2>3, <3>3, Own
      <4> QED
        BY <2>3, <4>1 DEF RegisterInv, CommitIsAlone
    <3> QED
      BY <3>1, <3>2, <3>3
  <2>4. ASSUME NEW v \in users' PROVE v.email # key[q]
    <3>1. CASE pc[r] = "commit" /\ v = NewUser(r, key[r])
      <4>1. v.email = key[r] /\ q # r
        BY <3>1, RegistererAct DEF NewUser
      <4>2. pc[q] = "commit"
        BY <4>1, Own
      <4> QED
        BY <3>1, <4>1, <4>2 DEF RegisterInv, CommitIsAlone
    <3> QED
      BY <2>2, <3>1, RowOrigin
  <2> QED
    BY <2>1, <2>3, <2>4
<1>3. RegisteredHasRow'
  <2> SUFFICES ASSUME NEW q \in Req, pc'[q] \in {"regDelete", "registered"}
               PROVE  \E v \in users' : v.uid = q /\ v.email = key'[q]
    BY DEF RegisteredHasRow
  <2>1. CASE pc[q] \in {"regDelete", "registered"}
    <3>1. key'[q] = key[q]
      BY <2>1, Stays
    <3>2. \E u \in users : u.uid = q /\ u.email = key[q]
      BY <2>1 DEF RegisterInv, RegisteredHasRow
    <3> QED
      BY <3>1, <3>2, RowsAct
  <2>2. CASE pc[q] \notin {"regDelete", "registered"}
    <3>1. q = r
      BY <2>2, Own
    <3>2. pc[r] = "commit" /\ pc'[r] = "regDelete"
      BY <2>2, <3>1, RegistererAct
    <3>3. key'[r] = key[r] /\ NewUser(r, key[r]) \in users'
      BY <3>2, Stays, RowsAct
    <3> QED
      BY <3>1, <3>3 DEF NewUser
  <2> QED
    BY <2>1, <2>2
<1>4. PasswordIsGranted'
  <2> SUFFICES ASSUME NEW v \in users', v.uid \in Req
               PROVE  /\ v.col["password"] \in Req /\ key'[v.col["password"]] = v.email
                      /\ via'[v.col["password"]] # None
    BY DEF PasswordIsGranted
  <2>0. "password" \in Column
    BY DEF Column
  <2>1. ASSUME NEW w \in Req, via[w] # None
        PROVE  key'[w] = key[w] /\ via'[w] # None
    BY <2>1, Stays
  <2>2. CASE v = NewUser(r, key[r]) /\ pc[r] = "commit"
    <3>1. v.col["password"] = r /\ v.email = key[r]
      BY <2>0, <2>2 DEF NewUser
    <3>2. via[r] # None
      BY <2>2 DEF Labels, LabelOf, Granted
    <3> QED
      BY <2>1, <3>1, <3>2
  <2>3. CASE \E u \in users : Rewritten(r, u, v)
    <3>1. PICK u \in users : Rewritten(r, u, v)
      BY <2>3
    <3>2. CASE v.col["password"] = u.col["password"]
      BY <2>1, <3>1, <3>2 DEF Rewritten, RegisterInv, PasswordIsGranted
    <3>3. CASE v.col["password"] = r /\ pc[r] = "update" /\ u.email = key[r]
      <4>1. via[r] # None
        BY <3>3 DEF Labels, LabelOf, Granted
      <4> QED
        BY <2>1, <3>1, <3>3, <4>1 DEF Rewritten
    <3>4. pc[r] \in {"info", "uploaded"} => "password" \notin arg[r]
      BY AccountAssumption DEF Labels, LabelOf, ImgType
    <3> QED
      BY <2>0, <3>1, <3>2, <3>3, <3>4 DEF Rewritten
  <2> QED
    BY <2>2, <2>3, RowsAct
<1> QED
  BY <1>1, <1>2, <1>3, <1>4 DEF RegisterInv

LEMMA RegisterExpire ==
  ASSUME RegisterInv, UNCHANGED <<users, pc, key, via>>
  PROVE  RegisterInv'
BY DEF RegisterInv, OneAccount, CommitIsAlone, IsEmailExists, RegisteredHasRow, PasswordIsGranted

LEMMA RegisterOpens == RegisterInv => RegisteredOpens
<1> SUFFICES ASSUME RegisterInv, NEW r \in Req, pc[r] = "registered"
             PROVE  /\ {u.uid : u \in {v \in users : v.email = key[r]}} = {r}
                    /\ \E w \in Req : LoginOpens(key[r], w) /\ key[w] = key[r] /\ via[w] # None
  BY DEF RegisteredOpens
<1>1. PICK u \in users : u.uid = r /\ u.email = key[r]
  BY DEF RegisterInv, RegisteredHasRow
<1>2. {t.uid : t \in {v \in users : v.email = key[r]}} = {r}
  BY <1>1 DEF RegisterInv, OneAccount
<1>3. \E w \in Req : LoginOpens(key[r], w) /\ key[w] = key[r] /\ via[w] # None
  BY <1>1 DEF RegisterInv, PasswordIsGranted, LoginOpens
<1> QED
  BY <1>2, <1>3

-----------------------------------------------------------------------------
(* The theorems. *)

\* Holds in every reachable state: what is granted, stored, limited and written.
AccountInv ==
  /\ TypeOK /\ Labels /\ PriorAnswered
  /\ AccountIsComplete /\ WrittenIsNotOutdated
  /\ CodeInv /\ LimitInv /\ MailInv /\ RegisterInv

LEMMA InvInit == Init => AccountInv
<1> SUFFICES ASSUME Init PROVE AccountInv
  OBVIOUS
<1>1. TypeOK /\ Labels /\ PriorAnswered
  BY AccountInit
<1>2. \A r \in Req : pc[r] = "idle" /\ via[r] = None /\ prior[r] = {}
  BY DEF Init
<1>3. \A e \in Email : code[e] = None
  BY DEF Init
<1>4. \A u \in users : /\ u.uid \in Registered /\ u.email = u.uid
                       /\ \A k \in Column : u.col[k] = u.uid
  BY DEF Init, NewUser
<1>5. AccountIsComplete
  <2>1. \A u \in users : u.uid \in category /\ <<"qr", u.uid>> \in file
    BY <1>4 DEF Init
  <2> QED
    BY <1>4, <2>1 DEF AccountIsComplete, Column
<1>6. WrittenIsNotOutdated
  BY <1>2 DEF WrittenIsNotOutdated, NotOutdated, LateUpload, Written
<1>7. CodeInv
  BY <1>2, <1>3 DEF CodeInv, CodeIsSaved, ViaIsSaved, ServedIsGone, CodeServesOnceInSequence
<1>8. LimitInv
  BY <1>2 DEF LimitInv, MailIsLimited, SendIsLate
<1>9. MailInv
  BY <1>2 DEF MailInv, CodeLasts, MailedCodeIsAccepted, Saved
<1>10. RegisterInv
  <2>1. \A u \in users : u.uid \notin Req
    BY <1>4, AccountAssumption
  <2> QED
    BY <1>2, <1>4, <2>1
    DEF RegisterInv, OneAccount, CommitIsAlone, RegisteredHasRow, PasswordIsGranted
<1> QED
  BY <1>1, <1>5, <1>6, <1>7, <1>8, <1>9, <1>10 DEF AccountInv

LEMMA InvAct ==
  ASSUME AccountInv, NEW r \in Req, Act(r)
  PROVE  AccountInv'
<1> USE DEF AccountInv
<1>1. TypeOK' /\ Labels' /\ PriorAnswered'
  BY TypeAct, LabelsAct, PriorAct
<1>2. AccountIsComplete' /\ WrittenIsNotOutdated'
  BY CompleteAct, NotOutdatedAct
<1>3. CodeInv'
  BY CodeIsSavedAct, ViaIsSavedAct, ServedIsGoneAct, ServesOnceAct DEF CodeInv
<1>4. LimitInv' /\ RegisterInv'
  BY LimitAct, RegisterAct
<1>5. MailInv'
  BY CodeLastsAct, MailedAct DEF MailInv
<1> QED
  BY <1>1, <1>2, <1>3, <1>4, <1>5

LEMMA InvExpire ==
  ASSUME AccountInv, NEW e \in Email, ExpireCode(e) \/ ExpireLimit(e)
  PROVE  AccountInv'
<1> USE DEF AccountInv
<1>1. UNCHANGED <<users, category, file, pc, key, arg, via, prior, kept>>
  BY ExpireLeaves DEF tables, request
<1>2. TypeOK' /\ CodeInv' /\ LimitInv' /\ MailInv'
  BY TypeExpire, CodeExpire, LimitExpire, MailExpire
<1>3. Labels' /\ PriorAnswered'
  BY <1>1 DEF Labels, LabelOf, PriorAnswered
<1>4. AccountIsComplete' /\ WrittenIsNotOutdated'
  BY <1>1 DEF AccountIsComplete, WrittenIsNotOutdated, NotOutdated, LateUpload, Written
<1>5. RegisterInv'
  BY <1>1, RegisterExpire
<1> QED
  BY <1>2, <1>3, <1>4, <1>5

LEMMA InvStutter == ASSUME AccountInv, UNCHANGED vars PROVE AccountInv'
<1>1. UNCHANGED <<code, limit, users, category, file, pc, key, arg, via, prior, kept, expired, lapsed>>
  BY DEF vars, redis, tables, request, history
<1>2. (TypeOK /\ Labels /\ PriorAnswered)'
  BY <1>1 DEF AccountInv, TypeOK, Labels, LabelOf, PriorAnswered
<1>3. (AccountIsComplete /\ WrittenIsNotOutdated)'
  BY <1>1 DEF AccountInv, AccountIsComplete, WrittenIsNotOutdated, NotOutdated, LateUpload, Written
<1>4. CodeInv'
  BY <1>1 DEF AccountInv, CodeInv, CodeIsSaved, ViaIsSaved, ServedIsGone, CodeServesOnceInSequence
<1>5. LimitInv' /\ MailInv'
  BY <1>1 DEF AccountInv, LimitInv, MailIsLimited, SendIsLate, MailInv, CodeLasts, Overlapped,
              MailedCodeIsAccepted
<1>6. RegisterInv'
  BY <1>1, RegisterExpire DEF AccountInv
<1> QED
  BY <1>2, <1>3, <1>4, <1>5, <1>6 DEF AccountInv

\* The invariant holds in every reachable state.
THEOREM AccountsInvariant == Spec => []AccountInv
<1>1. AccountInv /\ [Next]_vars => AccountInv'
  <2> SUFFICES ASSUME AccountInv, [Next]_vars PROVE AccountInv'
    OBVIOUS
  <2>1. ASSUME NEW r \in Req, Act(r) PROVE AccountInv'
    BY <2>1, InvAct
  <2>2. ASSUME NEW e \in Email, ExpireCode(e) \/ ExpireLimit(e) PROVE AccountInv'
    BY <2>2, InvExpire
  <2>3. CASE UNCHANGED vars
    BY <2>3, InvStutter
  <2> QED
    BY <2>1, <2>2, <2>3 DEF Next, Act
<1> QED
  BY InvInit, <1>1, PTL DEF Spec

\* Every variable keeps its type.
THEOREM AccountTypes == Spec => []TypeOK
<1>1. AccountInv => TypeOK
  BY DEF AccountInv
<1> QED
  BY AccountsInvariant, <1>1, PTL

\* A user told "registered" has the only account of the address, and it opens
\* with a password of a request that presented a code sent to the address.
THEOREM RegistrationOpens == Spec => []RegisteredOpens
<1>1. AccountInv => RegisteredOpens
  BY RegisterOpens DEF AccountInv
<1> QED
  BY AccountsInvariant, <1>1, PTL

\* Every row has its categories, its QR code and the files of its images.
THEOREM AccountsAreComplete == Spec => []AccountIsComplete
<1>1. AccountInv => AccountIsComplete
  BY DEF AccountInv
<1> QED
  BY AccountsInvariant, <1>1, PTL

\* A code that was deleted after its use serves no later request.
THEOREM CodesServeOnce == Spec => []CodeServesOnceInSequence
<1>1. AccountInv => CodeServesOnceInSequence
  BY DEF AccountInv, CodeInv
<1> QED
  BY AccountsInvariant, <1>1, PTL

\* The code of a mail is refused only when it expired or an overlapping request
\* replaced or used it.
THEOREM MailedCodesAreAccepted == Spec => []MailedCodeIsAccepted
<1>1. AccountInv => MailedCodeIsAccepted
  BY DEF AccountInv, MailInv
<1> QED
  BY AccountsInvariant, <1>1, PTL

\* No later request stores a code for an address before the limit of the mail
\* has lapsed.
THEOREM SendsAreLimited == Spec => []SequentialSendsAreLimited
<1>1. AccountInv => SequentialSendsAreLimited
  BY DEF AccountInv, LimitInv, SendIsLate, SequentialSendsAreLimited, Saved
<1> QED
  BY AccountsInvariant, <1>1, PTL

\* What a request wrote is replaced by one that was answered before it began only
\* where that is the goroutine of an upload of the same image.
THEOREM LateWritesAreUploads == Spec => []OnlyLateUploadsOverwrite
<1>1. AccountInv => OnlyLateUploadsOverwrite
  <2> SUFFICES ASSUME AccountInv, NEW r \in Req, NEW u \in users, NEW k \in Wrote(r, u)
               PROVE  NotOutdated(r, u, k)
    BY DEF OnlyLateUploadsOverwrite, NotOutdated
  <2>1. Written(r, u, k)
    BY DEF Wrote, Written
  <2>2. k \in Column
    BY <2>1 DEF Written, AccountInv, Labels, LabelOf, Column
  <2> QED
    BY <2>1, <2>2 DEF AccountInv, WrittenIsNotOutdated
<1> QED
  BY AccountsInvariant, <1>1, PTL
=============================================================================
