----------------------------- MODULE MailLinks -----------------------------
(***************************************************************************)
(* Links sent by mail and the account data they change: SetCode and        *)
(* VerifyCode of internal/repo/export/email_repo.go, and the requests of   *)
(* internal/service/content/user_service.go that send or follow a link:    *)
(* registration, activation, password reset, change of address and         *)
(* unsubscription.                                                         *)
(*                                                                         *)
(* The cache keeps the content of each code and the latest code of each    *)
(* user.  Codes are saved and mails sent by goroutines that the request    *)
(* does not wait for.  Every access to the cache or the user table is one  *)
(* action.                                                                 *)
(***************************************************************************)
EXTENDS Naturals, FiniteSets

CONSTANTS Accounts,     (* rows the user table may get *)
          Addresses,    (* mail addresses *)
          NoAddress,    (* of a row that is not there *)
          NoAccount,
          Clients,      (* HTTP requests in progress *)
          MaxCodes,     (* bound: codes generated *)
          MaxRequests,  (* bound: requests *)
          FirstAccount  (* registered before the first request *)

ASSUME MailAssumption ==
  /\ NoAddress \notin Addresses
  /\ NoAccount \notin Accounts
  /\ MaxCodes \in Nat
  /\ MaxRequests \in Nat
  /\ FirstAccount \in Accounts

Codes == 1..MaxCodes
Endpoints == {"reset", "activate", "change", "unsubscribe"}

(* EmailCodeContent; skip is SkipValidationLatestCode. *)
Contents == [user : Accounts, to : Addresses, skip : BOOLEAN]

(* A goroutine that saves code and sends the mail. *)
Mails == [code : Codes, content : Contents, at : {"latest", "content", "send"}]

VARIABLES mailOf,      (* column e_mail of the users *)
          activated,   (* users whose mail_status is EmailStatusAvailable *)
          password,    (* history: the link each password was last reset by *)
          channel,     (* users whose mail channel of notifications is enabled *)
          codeEntry,   (* cache: the codes that have a content, with it *)
          latest,      (* cache: UserLatestEmailCodeCacheKey; 0 is none *)
          mailing,     (* the goroutines that send mails *)
          mailbox,     (* the links that were delivered *)
          mlpc,        (* the next access of each request *)
          asked,       (* endpoint, code and address of each request *)
          content,     (* what VerifyCode has read *)
          target,      (* the user the request has read *)
          nextCode,    (* the codes 1..nextCode-1 have been generated *)
          mlRequests,  (* how many requests have arrived *)
          proven       (* history: addresses a link was sent to and accepted *)

mlAccount == <<mailOf, activated, password, channel>>
mlCodes == <<codeEntry, latest, mailing, mailbox, nextCode>>
mlLocal == <<asked, content, target>>
mlVars == <<mlAccount, mlCodes, mlpc, mlLocal, mlRequests, proven>>

NoContent == [user |-> NoAccount, to |-> NoAddress, skip |-> FALSE]
NoAsk == [at |-> "none", code |-> 0, to |-> NoAddress]

Asks == [at : Endpoints, code : Codes, to : {NoAddress}]
          \cup [at : {"register"}, code : {0}, to : Addresses]

MLPCs == {"idle", "add", "get", "delete", "latest", "find", "pass", "status",
          "unique", "email", "email_status", "unsubscribe"}

MLTypeOK ==
  /\ mailOf \in [Accounts -> Addresses \cup {NoAddress}]
  /\ activated \subseteq Accounts
  /\ password \in [Accounts -> 0..MaxCodes]
  /\ channel \subseteq Accounts
  /\ codeEntry \in [Codes -> Contents \cup {NoContent}]
  /\ latest \in [Accounts -> 0..MaxCodes]
  /\ mailing \subseteq Mails
  /\ mailbox \subseteq Codes
  /\ mlpc \in [Clients -> MLPCs]
  /\ asked \in [Clients -> Asks \cup {NoAsk}]
  /\ content \in [Clients -> Contents \cup {NoContent}]
  /\ target \in [Clients -> Accounts \cup {NoAccount}]
  /\ nextCode \in 1..(MaxCodes + 1)
  /\ mlRequests \in 0..MaxRequests
  /\ proven \subseteq Addresses

MLInit ==
  /\ \E a \in Addresses :
       mailOf = [u \in Accounts |-> IF u = FirstAccount THEN a ELSE NoAddress]
  /\ activated \in {{}, {FirstAccount}}
  /\ password = [u \in Accounts |-> 0]
  /\ channel = {FirstAccount}
  /\ codeEntry = [c \in Codes |-> NoContent]
  /\ latest = [u \in Accounts |-> 0]
  /\ mailing = {}
  /\ mailbox = {}
  /\ mlpc = [q \in Clients |-> "idle"]
  /\ asked = [q \in Clients |-> NoAsk]
  /\ content = [q \in Clients |-> NoContent]
  /\ target = [q \in Clients |-> NoAccount]
  /\ nextCode = 1
  /\ mlRequests = 0
  /\ proven = {mailOf[u] : u \in activated}

-----------------------------------------------------------------------------
MLGoto(q, from, to) == mlpc[q] = from /\ mlpc' = [mlpc EXCEPT ![q] = to]

MLReturn(q, from) ==
  /\ MLGoto(q, from, "idle")
  /\ asked' = [asked EXCEPT ![q] = NoAsk]
  /\ content' = [content EXCEPT ![q] = NoContent]
  /\ target' = [target EXCEPT ![q] = NoAccount]

(* GetByEmail, which reads one of the users that have the address. *)
Having(a) == {u \in Accounts : mailOf[u] = a}

(* GenerateToken, and the goroutine that saves the code and sends the mail. *)
SendAndSaveCode(u, a, skip) ==
  /\ nextCode <= MaxCodes
  /\ nextCode' = nextCode + 1
  /\ mailing' = mailing \cup {[code |-> nextCode, at |-> "latest",
                               content |-> [user |-> u, to |-> a, skip |-> skip]]}
  /\ UNCHANGED <<codeEntry, latest, mailbox>>

SendsOnly ==
  /\ mlRequests < MaxRequests
  /\ mlRequests' = mlRequests + 1
  /\ UNCHANGED <<mlAccount, mlpc, mlLocal, proven>>

(* RetrievePassWord: an unknown address is not told. *)
RetrievePassWord(a) ==
  /\ SendsOnly
  /\ \E u \in Having(a) : SendAndSaveCode(u, a, FALSE)

(* UserVerifyEmailSend and the administrator's SendUserActivation; the link of
   GetUserActivation is shown to the administrator instead. *)
UserVerifyEmailSend(u) ==
  /\ SendsOnly
  /\ mailOf[u] # NoAddress
  /\ SendAndSaveCode(u, mailOf[u], FALSE)

(* UserChangeEmailSendCode refuses an address that is taken at this moment. *)
UserChangeEmailSendCode(u, a) ==
  /\ SendsOnly
  /\ mailOf[u] # NoAddress
  /\ Having(a) = {}
  /\ SendAndSaveCode(u, a, FALSE)

(* A notification by mail, with a link to unsubscribe. *)
NotifyByMail(u) ==
  /\ SendsOnly
  /\ u \in activated \cap channel
  /\ SendAndSaveCode(u, mailOf[u], TRUE)

-----------------------------------------------------------------------------
(* SetCode: first the latest code of the user, then the content of the code. *)
SetLatest(m) ==
  /\ m.at = "latest"
  /\ latest' = [latest EXCEPT ![m.content.user] = m.code]
  /\ mailing' = (mailing \ {m}) \cup {[m EXCEPT !.at = "content"]}
  /\ UNCHANGED <<mlAccount, codeEntry, mailbox, nextCode, mlpc, mlLocal, mlRequests, proven>>

SetContent(m) ==
  /\ m.at = "content"
  /\ codeEntry' = [codeEntry EXCEPT ![m.code] = m.content]
  /\ mailing' = (mailing \ {m}) \cup {[m EXCEPT !.at = "send"]}
  /\ UNCHANGED <<mlAccount, latest, mailbox, nextCode, mlpc, mlLocal, mlRequests, proven>>

Deliver(m) ==
  /\ m.at = "send"
  /\ mailbox' = mailbox \cup {m.code}
  /\ mailing' = mailing \ {m}
  /\ UNCHANGED <<mlAccount, codeEntry, latest, nextCode, mlpc, mlLocal, mlRequests, proven>>

(* An error of the cache or of the mail server is logged; no mail is sent. *)
MailFails(m) ==
  /\ mailing' = mailing \ {m}
  /\ UNCHANGED <<mlAccount, codeEntry, latest, mailbox, nextCode, mlpc, mlLocal, mlRequests, proven>>

CodeExpires(c) ==
  /\ codeEntry[c] # NoContent
  /\ codeEntry' = [codeEntry EXCEPT ![c] = NoContent]
  /\ UNCHANGED <<mlAccount, latest, mailing, mailbox, nextCode, mlpc, mlLocal, mlRequests, proven>>

LatestExpires(u) ==
  /\ latest[u] # 0
  /\ latest' = [latest EXCEPT ![u] = 0]
  /\ UNCHANGED <<mlAccount, codeEntry, mailing, mailbox, nextCode, mlpc, mlLocal, mlRequests, proven>>

-----------------------------------------------------------------------------
(* UserRegisterByEmail: the address must be free at this moment. *)
Register(q, a) ==
  /\ MLGoto(q, "idle", "add")
  /\ mlRequests < MaxRequests
  /\ mlRequests' = mlRequests + 1
  /\ Having(a) = {}
  /\ asked' = [asked EXCEPT ![q] = [at |-> "register", code |-> 0, to |-> a]]
  /\ UNCHANGED <<mlAccount, mlCodes, content, target, proven>>

(* AddUser; the activation link is sent at once. *)
AddUser(q) ==
  /\ MLReturn(q, "add")
  /\ \E u \in Accounts :
       /\ mailOf[u] = NoAddress
       /\ mailOf' = [mailOf EXCEPT ![u] = asked[q].to]
       /\ channel' = channel \cup {u}
       /\ SendAndSaveCode(u, asked[q].to, FALSE)
  /\ UNCHANGED <<activated, password, mlRequests, proven>>

(* A link is followed; every page takes every code. *)
Follow(q, e, c) ==
  /\ MLGoto(q, "idle", "get")
  /\ c \in mailbox
  /\ mlRequests < MaxRequests
  /\ mlRequests' = mlRequests + 1
  /\ asked' = [asked EXCEPT ![q] = [at |-> e, code |-> c, to |-> NoAddress]]
  /\ UNCHANGED <<mlAccount, mlCodes, content, target, proven>>

(* VerifyCode: the content, *)
GetCode(q) ==
  /\ MLGoto(q, "get", "delete")
  /\ codeEntry[asked[q].code] # NoContent
  /\ content' = [content EXCEPT ![q] = codeEntry[asked[q].code]]
  /\ UNCHANGED <<mlAccount, mlCodes, asked, target, mlRequests, proven>>

NoCode(q) ==
  /\ MLReturn(q, "get")
  /\ codeEntry[asked[q].code] = NoContent
  /\ UNCHANGED <<mlAccount, mlCodes, mlRequests, proven>>

(* which is deleted, whatever comes next; an error of the cache is ignored, *)
DeleteCode(q) ==
  /\ MLGoto(q, "delete", "latest")
  /\ \/ codeEntry' = [codeEntry EXCEPT ![asked[q].code] = NoContent]
     \/ UNCHANGED codeEntry
  /\ UNCHANGED <<mlAccount, latest, mailing, mailbox, nextCode, mlLocal, mlRequests, proven>>

IsLatest(q) == content[q].skip \/ latest[content[q].user] = asked[q].code

Entry(e) == CASE e = "change" -> "unique"
              [] e = "unsubscribe" -> "unsubscribe"
              [] OTHER -> "find"

(* and the latest code of the user, unless the content says to skip it. *)
AcceptCode(q) ==
  /\ MLGoto(q, "latest", Entry(asked[q].at))
  /\ IsLatest(q)
  /\ proven' = proven \cup {content[q].to}
  /\ UNCHANGED <<mlAccount, mlCodes, mlLocal, mlRequests>>

RefuseCode(q) ==
  /\ MLReturn(q, "latest")
  /\ ~IsLatest(q)
  /\ UNCHANGED <<mlAccount, mlCodes, mlRequests, proven>>

-----------------------------------------------------------------------------
(* Mutant: the user is looked up by the id in the content. *)
FindById(q) ==
  /\ MLGoto(q, "find", IF asked[q].at = "reset" THEN "pass" ELSE "status")
  /\ target' = [target EXCEPT ![q] = content[q].user]
  /\ UNCHANGED <<mlAccount, mlCodes, asked, content, mlRequests, proven>>

(* UpdatePasswordWhenForgot and UserVerifyEmail look the user up by address. *)
FindByEmail(q) ==
  /\ MLGoto(q, "find", IF asked[q].at = "reset" THEN "pass" ELSE "status")
  /\ \E u \in Having(content[q].to) : target' = [target EXCEPT ![q] = u]
  /\ UNCHANGED <<mlAccount, mlCodes, asked, content, mlRequests, proven>>

MLUserNotFound(q) ==
  /\ MLReturn(q, "find")
  /\ Having(content[q].to) = {}
  /\ UNCHANGED <<mlAccount, mlCodes, mlRequests, proven>>

UpdatePass(q) ==
  /\ MLReturn(q, "pass")
  /\ password' = [password EXCEPT ![target[q]] = asked[q].code]
  /\ UNCHANGED <<mailOf, activated, channel, mlCodes, mlRequests, proven>>

UpdateEmailStatus(q) ==
  /\ MLReturn(q, "status")
  /\ activated' = activated \cup {target[q]}
  /\ UNCHANGED <<mailOf, password, channel, mlCodes, mlRequests, proven>>

(* UserChangeEmailVerify: the address must still be free, *)
CheckUnique(q) ==
  /\ MLGoto(q, "unique", "email")
  /\ Having(content[q].to) = {}
  /\ UNCHANGED <<mlAccount, mlCodes, mlLocal, mlRequests, proven>>

EmailDuplicate(q) ==
  /\ MLReturn(q, "unique")
  /\ Having(content[q].to) # {}
  /\ UNCHANGED <<mlAccount, mlCodes, mlRequests, proven>>

(* the address and its status are two statements. *)
UpdateEmail(q) ==
  /\ MLGoto(q, "email", "email_status")
  /\ mailOf' = [mailOf EXCEPT ![content[q].user] = content[q].to]
  /\ UNCHANGED <<activated, password, channel, mlCodes, mlLocal, mlRequests, proven>>

UpdateEmailStatusToo(q) ==
  /\ MLReturn(q, "email_status")
  /\ activated' = activated \cup {content[q].user}
  /\ UNCHANGED <<mailOf, password, channel, mlCodes, mlRequests, proven>>

(* UserUnsubscribeNotification: the channels are listed in the content of the
   links of notifications only. *)
Unsubscribe(q) ==
  /\ MLReturn(q, "unsubscribe")
  /\ channel' = IF content[q].skip THEN channel \ {content[q].user} ELSE channel
  /\ UNCHANGED <<mailOf, activated, password, mlCodes, mlRequests, proven>>

(* An error of the cache or of the table ends a request, between any two of its
   accesses, and so does a crash. *)
MLBreakOff(q) ==
  /\ mlpc[q] # "idle"
  /\ MLReturn(q, mlpc[q])
  /\ UNCHANGED <<mlAccount, mlCodes, mlRequests, proven>>

-----------------------------------------------------------------------------
MLSend ==
  \/ \E a \in Addresses : RetrievePassWord(a)
  \/ \E u \in Accounts : UserVerifyEmailSend(u)
  \/ \E u \in Accounts, a \in Addresses : UserChangeEmailSendCode(u, a)
  \/ \E u \in Accounts : NotifyByMail(u)
  \/ \E m \in mailing : SetLatest(m) \/ SetContent(m) \/ Deliver(m) \/ MailFails(m)
  \/ \E c \in Codes : CodeExpires(c)
  \/ \E u \in Accounts : LatestExpires(u)

MLRequest(q) ==
  \/ \E a \in Addresses : Register(q, a)
  \/ AddUser(q)
  \/ \E e \in Endpoints, c \in Codes : Follow(q, e, c)
  \/ GetCode(q) \/ NoCode(q) \/ DeleteCode(q) \/ AcceptCode(q) \/ RefuseCode(q)
  \/ FindByEmail(q) \/ MLUserNotFound(q) \/ UpdatePass(q) \/ UpdateEmailStatus(q)
  \/ CheckUnique(q) \/ EmailDuplicate(q) \/ UpdateEmail(q) \/ UpdateEmailStatusToo(q)
  \/ Unsubscribe(q) \/ MLBreakOff(q)

MLNext == MLSend \/ \E q \in Clients : MLRequest(q)

MLSpec == MLInit /\ [][MLNext]_mlVars

-----------------------------------------------------------------------------
(* The address of an activated account has been proven: a link that was made for
   it was followed and accepted, in whatever order links are sent, followed on
   the wrong page, overtaken and made out of date, and wherever a request breaks
   off. *)
AddressProven == \A u \in activated : mailOf[u] \in proven

=============================================================================
