------------------------------ MODULE Accounts ------------------------------
(***************************************************************************)
(* The requests of service/user on the users table: codes are mailed       *)
(* (SendCode), open an account (Register) or change its password (ResetPwd),*)
(* and a user changes the profile (UpdateInfo, UploadImg).                  *)
(*                                                                         *)
(* Codes and send limits are keys in Redis that expire.  Every call to     *)
(* Redis or MySQL is a step, so the checks of one request interleave with  *)
(* the writes of the others.  An upload answers before its column is        *)
(* updated: the goroutine it leaves behind is a step of the same request.  *)
(***************************************************************************)
EXTENDS Naturals, FiniteSets

CONSTANTS Email, Code,
          Field,       \* the columns UpdateInfo may write
          Req,         \* requests; each may create the account named after it
          Registered,  \* addresses that have an account, named after them
          None

ReqType == {"register", "resetPwd", ""}

ASSUME AccountAssumption ==
  /\ Registered \subseteq Email /\ Email \cap Req = {}
  /\ None \notin Email \cup Code \cup Req \cup [val : Code, by : Req]
  /\ Code \cap ReqType = {}
  /\ Field \cap {"password", "avatar", "bgImg"} = {}

VARIABLES
  code,     \* "code:" keys: the code stored for an address, and who saved it
  limit,    \* "limit:" keys
  users,    \* rows of users; col[k] names the request that wrote column k
  category, \* uids whose two default categories are stored
  file,     \* files: ["qr", uid] and ["thumb", request]
  pc,       \* where a request is
  key,      \* the address or the uid it is about
  arg,      \* what it carries, as a set: reqType and then the code it drew,
            \* the code it presents, uploadType, the columns it updates
  via,      \* the send whose code it was found to present
  prior,    \* history: requests whose client had its answer when it began
  kept,     \* history: requests whose DeleteCode failed
  expired,  \* history: sends whose code expired
  lapsed    \* history: sends whose limit expired

redis   == <<code, limit>>
tables  == <<users, category>>
request == <<pc, key, arg, via, prior>>
history == <<kept, expired, lapsed>>
vars    == <<redis, tables, file, request, history>>

Uid == Req \cup Email
ImgType == {"avatar", "bgImg"}
Column == {"password"} \cup ImgType \cup Field

Ended == {"sent", "unsent", "registered", "reset", "updated", "applied", "lost",
          "refused", "failed"}
Answered == Ended \cup {"uploaded"}     \* the goroutine of an upload runs on

NewUser(u, e) == [uid |-> u, email |-> e, col |-> [k \in Column |-> u]]

Init ==
  /\ code = [e \in Email |-> None]
  /\ limit = {}
  /\ users = {NewUser(e, e) : e \in Registered}
  /\ category = Registered
  /\ file = {<<"qr", e>> : e \in Registered}
  /\ pc = [r \in Req |-> "idle"]
  /\ key = [r \in Req |-> None]
  /\ arg = [r \in Req |-> {}]
  /\ via = [r \in Req |-> None]
  /\ prior = [r \in Req |-> {}]
  /\ kept = {} /\ expired = {} /\ lapsed = {}

IsEmailExists(e) == \E u \in users : u.email = e

\* Login with the password that request r wrote.
LoginOpens(e, r) == \E u \in users : u.email = e /\ u.col["password"] = r

\* A request arrives: what it is about, what it carries, its first step done.
Begin(r, k, x, l) ==
  /\ pc[r] = "idle"
  /\ key' = [key EXCEPT ![r] = k]
  /\ arg' = [arg EXCEPT ![r] = x]
  /\ prior' = [prior EXCEPT ![r] = {q \in Req : pc[q] \in Answered}]
  /\ pc' = [pc EXCEPT ![r] = l]
  /\ UNCHANGED via

Goto(r, l) == pc' = [pc EXCEPT ![r] = l] /\ UNCHANGED <<key, prior>>

\* UPDATE users SET ks, of the rows us.
SetColumn(us, ks, r) ==
  users' = (users \ us) \cup
           {[u EXCEPT !.col = [k \in Column |-> IF k \in ks THEN r ELSE @[k]]] : u \in us}

-----------------------------------------------------------------------------
(* Seeded defects: each replaces the operator it is named after, to show    *)
(* that a property below notices it.  Next uses none of them.              *)

\* Only registrations are limited.
CheckSendLimit_RegisterOnly(r) ==
  /\ \E e \in Email, t \in ReqType :
       Begin(r, e, {t}, IF e \in limit /\ t = "register" THEN "failed" ELSE "exists")
  /\ UNCHANGED <<redis, tables, file, history>>

\* The limit is set under CodePrefix and overwrites the code.
SetSendLimit_WrongPrefix(r) ==
  /\ pc[r] = "limit"
  /\ \E c \in Code \ arg[r] : code' = [code EXCEPT ![key[r]] = [val |-> c, by |-> r]]
  /\ Goto(r, "mail")
  /\ UNCHANGED <<limit, tables, file, arg, via, history>>

\* No unique key on the email.
CreateUser_NoUniqueKey(r) ==
  /\ pc[r] = "create"
  /\ file' = file \cup {<<"qr", r>>}
  /\ Goto(r, "commit")
  /\ UNCHANGED <<redis, tables, arg, via, history>>

\* A reset leaves its code.
DeleteCode_RegisterOnly(r) ==
  /\ pc[r] \in {"regDelete", "resetDelete"}
  /\ code' = IF pc[r] = "regDelete" THEN [code EXCEPT ![key[r]] = None] ELSE code
  /\ Goto(r, IF pc[r] = "regDelete" THEN "registered" ELSE "reset")
  /\ UNCHANGED <<limit, tables, file, arg, via, history>>

\* The code is overwritten with an empty string.
DeleteCode_Empties(r) ==
  /\ pc[r] \in {"regDelete", "resetDelete"}
  /\ code' = [code EXCEPT ![key[r]] = [val |-> "", by |-> r]]
  /\ Goto(r, IF pc[r] = "regDelete" THEN "registered" ELSE "reset")
  /\ UNCHANGED <<limit, tables, file, arg, via, history>>

\* The error of imaging.Save is not returned.
SaveThumb_ErrorIgnored(r) ==
  /\ pc[r] = "saving"
  /\ \/ file' = file \cup {<<"thumb", r>>}
     \/ UNCHANGED file
  /\ Goto(r, "uploaded")
  /\ UNCHANGED <<redis, tables, arg, via, history>>

\* The goroutine saves the row as the upload found it, not the one column.
UpdateImgUrl_WholeRow(r) ==
  /\ pc[r] = "uploaded"
  /\ \/ /\ SetColumn({u \in users : u.uid = key[r]}, Column, r)
        /\ \E l \in {"applied", "lost"} : Goto(r, l)
     \/ Goto(r, "lost") /\ UNCHANGED users
  /\ UNCHANGED <<redis, category, file, arg, via, history>>

-----------------------------------------------------------------------------
(* SendCode. *)

CheckSendLimit(r) ==
  /\ \E e \in Email, t \in ReqType : Begin(r, e, {t}, IF e \in limit THEN "failed" ELSE "exists")
  /\ UNCHANGED <<redis, tables, file, history>>

CheckEmail(r) ==
  /\ pc[r] = "exists"
  /\ Goto(r, IF \/ IsEmailExists(key[r]) /\ "register" \in arg[r]
                \/ ~IsEmailExists(key[r]) /\ "resetPwd" \in arg[r]
             THEN "failed" ELSE "save")
  /\ UNCHANGED <<redis, tables, file, arg, via, history>>

\* GenerateCode and SET with a fresh expiry.  "unsent": the reply is lost.
SaveCode(r) ==
  /\ pc[r] = "save"
  /\ \E c \in Code : /\ arg' = [arg EXCEPT ![r] = {c}]
                     /\ code' = [code EXCEPT ![key[r]] = [val |-> c, by |-> r]]
  /\ \E l \in {"limit", "unsent"} : Goto(r, l)
  /\ UNCHANGED <<limit, tables, file, via, history>>

SetSendLimit(r) ==
  /\ pc[r] = "limit"
  /\ limit' = limit \cup {key[r]}
  /\ \E l \in {"mail", "unsent"} : Goto(r, l)
  /\ UNCHANGED <<code, tables, file, arg, via, history>>

\* The mail is sent, or the client is told that it could not be.
SendQQEmail(r) ==
  /\ pc[r] = "mail"
  /\ \E l \in {"sent", "unsent"} : Goto(r, l)
  /\ UNCHANGED <<redis, tables, file, arg, via, history>>

-----------------------------------------------------------------------------
(* Register and ResetPwd. *)

RegisterCheckEmail(r) ==
  /\ \E e \in Email, c \in Code :
       Begin(r, e, {c}, IF IsEmailExists(e) THEN "failed" ELSE "regCode")
  /\ UNCHANGED <<redis, tables, file, history>>

ResetCheckEmail(r) ==
  /\ \E e \in Email, c \in Code :
       Begin(r, e, {c}, IF IsEmailExists(e) THEN "resetCode" ELSE "failed")
  /\ UNCHANGED <<redis, tables, file, history>>

\* No code, an expired one or another one is refused.
GetCode(r) ==
  /\ pc[r] \in {"regCode", "resetCode"}
  /\ LET stored == code[key[r]] IN
       IF stored # None /\ stored.val \in arg[r]
         THEN /\ via' = [via EXCEPT ![r] = stored.by]
              /\ Goto(r, IF pc[r] = "regCode" THEN "create" ELSE "update")
         ELSE Goto(r, "refused") /\ UNCHANGED via
  /\ UNCHANGED <<redis, tables, file, arg, history>>

\* The QR code is written, the transaction begins and inserts the user.  The
\* unique email makes the insert wait for another transaction's and fail on a
\* committed one.
CreateUser(r) ==
  /\ pc[r] = "create"
  /\ \A q \in Req : pc[q] = "commit" => key[q] # key[r]
  /\ file' = file \cup {<<"qr", r>>}
  /\ Goto(r, IF IsEmailExists(key[r]) THEN "failed" ELSE "commit")
  /\ UNCHANGED <<redis, tables, arg, via, history>>

\* The two categories, and the commit; "failed": its reply is lost.
RegisterCommit(r) ==
  /\ pc[r] = "commit"
  /\ users' = users \cup {NewUser(r, key[r])}
  /\ category' = category \cup {r}
  /\ \E l \in {"regDelete", "failed"} : Goto(r, l)
  /\ UNCHANGED <<redis, file, arg, via, history>>

UpdatePassword(r) ==
  /\ pc[r] = "update"
  /\ SetColumn({u \in users : u.email = key[r]}, {"password"}, r)
  /\ \E l \in {"resetDelete", "failed"} : Goto(r, l)
  /\ UNCHANGED <<redis, category, file, arg, via, history>>

\* DEL of whatever code is stored by now; its error is dropped.
DeleteCode(r) ==
  /\ pc[r] \in {"regDelete", "resetDelete"}
  /\ \/ code' = [code EXCEPT ![key[r]] = None] /\ UNCHANGED kept
     \/ kept' = kept \cup {r} /\ UNCHANGED code
  /\ Goto(r, IF pc[r] = "regDelete" THEN "registered" ELSE "reset")
  /\ UNCHANGED <<limit, tables, file, arg, via, expired, lapsed>>

-----------------------------------------------------------------------------
(* The profile of a user who is logged in. *)

UpdateInfoBegin(r) ==
  /\ \E u \in users, ks \in SUBSET Field : Begin(r, u.uid, ks, IF ks = {} THEN "failed" ELSE "info")
  /\ UNCHANGED <<redis, tables, file, history>>

UpdateInfo(r) ==
  /\ pc[r] = "info"
  /\ SetColumn({u \in users : u.uid = key[r]}, arg[r], r)
  /\ \E l \in {"updated", "failed"} : Goto(r, l)
  /\ UNCHANGED <<redis, category, file, arg, via, history>>

UploadImgBegin(r) ==
  /\ \E u \in users, t \in ImgType : Begin(r, u.uid, {t}, "saving")
  /\ UNCHANGED <<redis, tables, file, history>>

\* The thumbnail is stored, the goroutine started, the client told "updated".
SaveThumb(r) ==
  /\ pc[r] = "saving"
  /\ file' = file \cup {<<"thumb", r>>}
  /\ Goto(r, "uploaded")
  /\ UNCHANGED <<redis, tables, arg, via, history>>

\* The goroutine; "lost": it logs an error, whether or not the UPDATE was done.
UpdateImgUrl(r) ==
  /\ pc[r] = "uploaded"
  /\ \/ SetColumn({u \in users : u.uid = key[r]}, arg[r], r) /\ \E l \in {"applied", "lost"} : Goto(r, l)
     \/ Goto(r, "lost") /\ UNCHANGED users
  /\ UNCHANGED <<redis, category, file, arg, via, history>>

-----------------------------------------------------------------------------
\* A call fails or the 5 s of the request are over; a transaction leaves nothing.
RequestError(r) ==
  /\ pc[r] \in {"exists", "save", "limit", "regCode", "resetCode", "create", "commit",
                "update", "info", "saving"}
  /\ Goto(r, IF pc[r] = "limit" THEN "unsent" ELSE "failed")
  /\ UNCHANGED <<redis, tables, file, arg, via, history>>

\* CodeExpire.  A limit is set within the 5 s of the request that saved a code,
\* and 300 s are longer than 60 s: a code outlives the limit of its address.
ExpireCode(e) ==
  /\ code[e] # None /\ e \notin limit
  /\ \A r \in Req : pc[r] = "limit" => key[r] # e
  /\ code' = [code EXCEPT ![e] = None]
  /\ expired' = expired \cup {code[e].by}
  /\ UNCHANGED <<limit, tables, file, request, kept, lapsed>>

\* LimitExpire.
ExpireLimit(e) ==
  /\ e \in limit
  /\ limit' = limit \ {e}
  /\ lapsed' = lapsed \cup {r \in Req : key[r] = e /\ pc[r] \in {"mail", "sent", "unsent"}}
  /\ UNCHANGED <<code, tables, file, request, kept, expired>>

SendCode(r) == CheckSendLimit(r) \/ CheckEmail(r) \/ SaveCode(r) \/ SetSendLimit(r) \/ SendQQEmail(r)
Register(r) == RegisterCheckEmail(r) \/ CreateUser(r) \/ RegisterCommit(r)
ResetPwd(r) == ResetCheckEmail(r) \/ UpdatePassword(r)
Profile(r)  == UpdateInfoBegin(r) \/ UpdateInfo(r) \/ UploadImgBegin(r) \/ SaveThumb(r) \/ UpdateImgUrl(r)

Next ==
  \/ \E r \in Req : \/ SendCode(r) \/ Register(r) \/ ResetPwd(r) \/ GetCode(r) \/ DeleteCode(r)
                    \/ Profile(r) \/ RequestError(r)
  \/ \E e \in Email : ExpireCode(e) \/ ExpireLimit(e)

Spec == Init /\ [][Next]_vars

-----------------------------------------------------------------------------
(* Properties. *)

TypeOK ==
  /\ code \in [Email -> [val : Code, by : Req] \cup {None}]
  /\ limit \subseteq Email
  /\ users \subseteq [uid : Uid, email : Email, col : [Column -> Uid]]
  /\ category \subseteq Uid
  /\ file \subseteq {"qr", "thumb"} \X Uid
  /\ pc \in [Req -> Ended \cup {"idle", "exists", "save", "limit", "mail", "regCode", "resetCode",
                                "create", "commit", "update", "regDelete", "resetDelete", "info",
                                "saving", "uploaded"}]
  /\ key \in [Req -> Uid \cup {None}]
  /\ arg \in [Req -> SUBSET (Code \cup ReqType \cup Column)]
  /\ via \in [Req -> Req \cup {None}]
  /\ prior \in [Req -> SUBSET Req]
  /\ kept \subseteq Req /\ expired \subseteq Req /\ lapsed \subseteq Req

\* A user told "registered" has the only account of the address, and it opens
\* with the password of the registration, or of a later request that presented
\* a code stored for the address: however registrations, resets, lost replies
\* and expiries interleave.
RegisteredOpens ==
  \A r \in Req : pc[r] = "registered" =>
    /\ {u.uid : u \in {v \in users : v.email = key[r]}} = {r}
    /\ \E w \in Req : LoginOpens(key[r], w) /\ key[w] = key[r] /\ via[w] # None

\* An account has what its registration wrote around the row, and its images
\* are defaults or stored files, although the row, the files and the columns
\* are written by a transaction, the file system and a goroutine.
AccountIsComplete ==
  \A u \in users :
    /\ u.uid \in category /\ <<"qr", u.uid>> \in file
    /\ \A k \in ImgType : u.col[k] = u.uid \/ <<"thumb", u.col[k]>> \in file

\* A code that opened an account or changed a password does not do so again for
\* a request that begins after the first one was told, unless the deletion
\* failed silently.  Overlapping requests may share it.
CodeServesOnceInSequence ==
  \A r, q \in Req :
    pc[r] \in {"registered", "reset"} /\ r \in prior[q] /\ r \notin kept => via[q] # via[r]

\* The code of a mail is not refused while it lasts, unless another request for
\* the address that did not end before the mail replaced or used it.
MailedCodeIsAccepted ==
  \A s, r \in Req :
    /\ pc[s] = "sent" /\ s \in prior[r] /\ key[s] = key[r]
    /\ pc[r] = "refused" /\ arg[r] = arg[s]
    => \/ s \in expired
       \/ \E x \in Req \ {s, r} : /\ key[x] = key[s] /\ x \notin prior[s]
                                 /\ \/ via[x] # None
                                    \/ pc[x] \in {"limit", "mail", "sent", "unsent"}

\* After a mail no other code is stored for the address until the limit has
\* lapsed; only overlapping requests get past the check.
SequentialSendsAreLimited ==
  \A s, r \in Req :
    /\ pc[s] = "sent" /\ s \in prior[r] /\ key[s] = key[r]
    /\ pc[r] \in {"limit", "mail", "sent", "unsent"}
    => s \in lapsed

\* What a request wrote is not replaced by one that had been answered when it
\* began, except an image, by the goroutine of an earlier upload of that image.
\* The exception is real: two uploads one after the other, both told that they
\* are done (uploadImage.go:80), leave the older image when their goroutines run
\* in the other order.  Passwords and the columns of UpdateInfo are safe from it.
Wrote(r, u) ==
  CASE pc[r] = "reset" -> IF key[r] = u.email THEN {"password"} ELSE {}
    [] pc[r] \in {"updated", "applied"} -> IF key[r] = u.uid THEN arg[r] ELSE {}
    [] OTHER -> {}
LateUpload(w, u, k) ==
  k \in ImgType /\ pc[w] \in {"applied", "lost"} /\ k \in arg[w] /\ key[w] = u.uid
OnlyLateUploadsOverwrite ==
  \A r \in Req, u \in users : \A k \in Wrote(r, u) :
    u.col[k] = r \/ (u.col[k] \in Req /\ (u.col[k] \in prior[r] => LateUpload(u.col[k], u, k)))
=============================================================================
