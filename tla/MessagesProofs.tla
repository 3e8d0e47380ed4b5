--------------------------- MODULE MessagesProofs ---------------------------
(***************************************************************************)
(* Theorems about what users are sent: the links in their mails, for every *)
(* set of accounts, addresses and requests and any number of codes, and    *)
(* their notifications, for any users, any room in the queue and any       *)
(* number of events, requests and failures; and about the queue itself,    *)
(* for every set of senders, closers and registrars, every capacity and    *)
(* every number of messages.                                               *)
(*                                                                         *)
(* MailLinks.  An account is activated in two ways, by UserVerifyEmail,    *)
(* which looks the user up by the address of the link, and by              *)
(* UserChangeEmailVerify, which writes that address first.  Between the    *)
(* look-up and the statement that activates, other requests may only write *)
(* addresses that have been proven, or fill rows that were not there.      *)
(*                                                                         *)
(* Notices.  An object has one achievement notification per user, and in   *)
(* the end it shows what the object is worth.  Both rest on what the one   *)
(* worker knows between its statements: a row that it did not find has not *)
(* come into being since, and a sum that has become stale is followed by   *)
(* the message of the event that changed it.                               *)
(*                                                                         *)
(* Queue.  Nobody sends once the channel is closed, because senders hold   *)
(* the read lock and Close the write lock; what was received and what is   *)
(* in the channel is what was sent, from which each step of the queue is   *)
(* a step of what AsyncQueue promises.                                     *)
(***************************************************************************)
EXTENDS MailLinks, Notices, Queue, SequenceTheorems, TLAPS

(* The links in mails. *)
USE MailAssumption DEF MailAssumption

(* What a request works on, by its next access. *)
Following == {"get", "delete", "latest", "find", "pass", "status", "unique", "email", "email_status",
              "unsubscribe"}
Accepted == {"find", "pass", "status", "unique", "email", "email_status", "unsubscribe"}

RequestOK(q) ==
  /\ mlpc[q] = "add" => asked[q].to \in Addresses
  /\ mlpc[q] \in Following => asked[q].code \in Codes /\ asked[q].at \in Endpoints
  /\ mlpc[q] \in Following \ {"get"} => content[q] \in Contents
  /\ mlpc[q] \in {"pass", "status"} => target[q] \in Accounts

(* What it has accepted is proven, and so is the address of the user that it is
   about to activate. *)
RequestProven(q) ==
  /\ mlpc[q] \in Accepted => content[q].to \in proven
  /\ mlpc[q] = "status" => mailOf[target[q]] \in proven
  /\ mlpc[q] = "email_status" => mailOf[content[q].user] \in proven

MLInv ==
  /\ MLTypeOK
  /\ AddressProven
  /\ \A q \in Clients : RequestOK(q) /\ RequestProven(q)

-----------------------------------------------------------------------------
LEMMA MLInitInv == MLInit => MLInv
<1> SUFFICES ASSUME MLInit PROVE MLInv
  OBVIOUS
<1> USE DEF MLInit
<1>1. MLTypeOK
  <2>1. mlpc \in [Clients -> MLPCs]
    BY DEF MLPCs
  <2>2. mailOf \in [Accounts -> Addresses \cup {NoAddress}]
    OBVIOUS
  <2>3. /\ activated \subseteq Accounts /\ channel \subseteq Accounts
        /\ \A u \in activated : u = FirstAccount /\ mailOf[u] \in Addresses
    OBVIOUS
  <2>4. proven \subseteq Addresses
    BY <2>3
  <2>5. /\ password \in [Accounts -> 0..MaxCodes] /\ latest \in [Accounts -> 0..MaxCodes]
        /\ nextCode \in 1..(MaxCodes + 1) /\ mlRequests \in 0..MaxRequests
    OBVIOUS
  <2> QED
    BY <2>1, <2>2, <2>3, <2>4, <2>5 DEF MLTypeOK
<1>2. AddressProven
  BY DEF AddressProven
<1>3. \A q \in Clients : RequestOK(q) /\ RequestProven(q)
  BY DEF RequestOK, RequestProven, Following, Accepted
<1> QED
  BY <1>1, <1>2, <1>3 DEF MLInv

(* The end of a request. *)
LEMMA MLReturnOK ==
  ASSUME MLInv, NEW q \in Clients, NEW from, MLReturn(q, from)
  PROVE  /\ mlpc' \in [Clients -> MLPCs]
         /\ asked' \in [Clients -> Asks \cup {NoAsk}]
         /\ content' \in [Clients -> Contents \cup {NoContent}]
         /\ target' \in [Clients -> Accounts \cup {NoAccount}]
         /\ mlpc'[q] = "idle"
         /\ \A r \in Clients \ {q} : /\ mlpc'[r] = mlpc[r] /\ asked'[r] = asked[r]
                                     /\ content'[r] = content[r] /\ target'[r] = target[r]
BY DEF MLInv, MLTypeOK, MLReturn, MLGoto, MLPCs

(* A statement that leaves the accounts alone, or only writes what has been
   proven: the other requests lose nothing. *)
LEMMA OthersProven ==
  ASSUME MLInv, NEW q \in Clients,
         \A r \in Clients \ {q} : /\ mlpc'[r] = mlpc[r] /\ asked'[r] = asked[r]
                                  /\ content'[r] = content[r] /\ target'[r] = target[r],
         proven \subseteq proven',
         \A u \in Accounts : mailOf[u] \in proven => mailOf'[u] \in proven',
         mlpc'[q] = "idle" \/ (RequestOK(q)' /\ RequestProven(q)'),
         \A u \in activated' \ activated : mailOf'[u] \in proven',
         activated' \subseteq Accounts
  PROVE  AddressProven' /\ \A r \in Clients : RequestOK(r)' /\ RequestProven(r)'
<1>1. AddressProven'
  BY DEF MLInv, MLTypeOK, AddressProven
<1>2. ASSUME NEW r \in Clients \ {q} PROVE RequestOK(r)' /\ RequestProven(r)'
  <2>1. RequestOK(r) /\ RequestProven(r)
    BY DEF MLInv
  <2>2. mlpc[r] = "email_status" => content[r].user \in Accounts
    BY <2>1 DEF RequestOK, Following, Contents
  <2> QED
    BY <2>1, <2>2 DEF RequestOK, RequestProven, Following
<1>3. RequestOK(q)' /\ RequestProven(q)'
  BY DEF RequestOK, RequestProven, Following, Accepted
<1> QED
  BY <1>1, <1>2, <1>3

(* A request or a mail that leaves accounts, requests and proofs alone. *)
LEMMA ElsewhereProven ==
  ASSUME MLInv, UNCHANGED <<mailOf, activated, proven, mlpc, asked, content, target>>
  PROVE  AddressProven' /\ \A r \in Clients : RequestOK(r)' /\ RequestProven(r)'
BY DEF MLInv, AddressProven, RequestOK, RequestProven

(* A new mail is a mail. *)
LEMMA SendType ==
  ASSUME MLTypeOK, NEW u \in Accounts, NEW a \in Addresses, NEW skip \in BOOLEAN,
         SendAndSaveCode(u, a, skip)
  PROVE  /\ nextCode' \in 1..(MaxCodes + 1) /\ mailing' \subseteq Mails
         /\ UNCHANGED <<codeEntry, latest, mailbox>>
<1> DEFINE m == [code |-> nextCode, at |-> "latest", content |-> [user |-> u, to |-> a, skip |-> skip]]
<1>1. nextCode \in Codes /\ nextCode + 1 \in 1..(MaxCodes + 1)
  BY DEF SendAndSaveCode, MLTypeOK, Codes
<1>2. m \in Mails
  BY <1>1 DEF Mails, Contents
<1>3. nextCode' = nextCode + 1 /\ mailing' = mailing \cup {m}
  BY DEF SendAndSaveCode
<1> HIDE DEF m
<1>4. mailing' \subseteq Mails
  BY <1>2, <1>3 DEF MLTypeOK
<1> QED
  BY <1>1, <1>3, <1>4 DEF SendAndSaveCode

-----------------------------------------------------------------------------
LEMMA MLSendInv ==
  ASSUME MLInv, MLSend
  PROVE  MLInv'
<1> SUFFICES MLTypeOK' /\ UNCHANGED <<mailOf, activated, proven, mlpc, asked, content, target>>
  BY ElsewhereProven DEF MLInv
<1>t. MLTypeOK
  BY DEF MLInv
<1>1. ASSUME NEW u \in Accounts, NEW a \in Addresses, NEW skip \in BOOLEAN,
             SendsOnly, SendAndSaveCode(u, a, skip)
      PROVE  MLTypeOK' /\ UNCHANGED <<mailOf, activated, proven, mlpc, asked, content, target>>
  <2>1. mlRequests' \in 0..MaxRequests
    BY <1>t, <1>1 DEF SendsOnly, MLTypeOK
  <2>2. /\ nextCode' \in 1..(MaxCodes + 1) /\ mailing' \subseteq Mails
        /\ UNCHANGED <<codeEntry, latest, mailbox>>
    BY <1>t, <1>1, SendType
  <2>3. UNCHANGED <<mailOf, activated, password, channel, mlpc, asked, content, target, proven>>
    BY <1>1 DEF SendsOnly, mlAccount, mlLocal
  <2> QED
    BY <1>t, <2>1, <2>2, <2>3 DEF MLTypeOK
<1>2. ASSUME NEW a \in Addresses, RetrievePassWord(a)
      PROVE  MLTypeOK' /\ UNCHANGED <<mailOf, activated, proven, mlpc, asked, content, target>>
  BY <1>1, <1>2 DEF RetrievePassWord, Having
<1>3. ASSUME NEW u \in Accounts, UserVerifyEmailSend(u) \/ NotifyByMail(u)
      PROVE  MLTypeOK' /\ UNCHANGED <<mailOf, activated, proven, mlpc, asked, content, target>>
  <2>1. mailOf[u] \in Addresses
    BY <1>t, <1>3 DEF UserVerifyEmailSend, NotifyByMail, MLTypeOK, MLInv, AddressProven
  <2> QED
    BY <1>1, <1>3, <2>1 DEF UserVerifyEmailSend, NotifyByMail
<1>4. ASSUME NEW u \in Accounts, NEW a \in Addresses, UserChangeEmailSendCode(u, a)
      PROVE  MLTypeOK' /\ UNCHANGED <<mailOf, activated, proven, mlpc, asked, content, target>>
  BY <1>1, <1>4 DEF UserChangeEmailSendCode
<1>5. ASSUME NEW m \in mailing, SetLatest(m) \/ SetContent(m) \/ Deliver(m) \/ MailFails(m)
      PROVE  MLTypeOK' /\ UNCHANGED <<mailOf, activated, proven, mlpc, asked, content, target>>
  <2>1. m \in Mails /\ m.code \in Codes /\ m.content \in Contents /\ m.content.user \in Accounts
    BY <1>t DEF MLTypeOK, Mails, Contents
  <2>2. [m EXCEPT !.at = "content"] \in Mails /\ [m EXCEPT !.at = "send"] \in Mails
    BY <2>1 DEF Mails
  <2>3. mailing' \subseteq Mails
    BY <1>t, <1>5, <2>2 DEF SetLatest, SetContent, Deliver, MailFails, MLTypeOK
  <2>4. latest' \in [Accounts -> 0..MaxCodes]
    <3>1. m.code \in 0..MaxCodes /\ latest \in [Accounts -> 0..MaxCodes]
      BY <1>t, <2>1 DEF MLTypeOK, Codes
    <3>2. latest' = latest \/ latest' = [latest EXCEPT ![m.content.user] = m.code]
      BY <1>5 DEF SetLatest, SetContent, Deliver, MailFails
    <3> QED
      BY <2>1, <3>1, <3>2
  <2>5. codeEntry' \in [Codes -> Contents \cup {NoContent}]
    BY <1>t, <1>5, <2>1 DEF SetLatest, SetContent, Deliver, MailFails, MLTypeOK
  <2>6. mailbox' \subseteq Codes
    BY <1>t, <1>5, <2>1 DEF SetLatest, SetContent, Deliver, MailFails, MLTypeOK
  <2>7. UNCHANGED <<mailOf, activated, password, channel, nextCode, mlpc, asked, content, target,
                    mlRequests, proven>>
    BY <1>5 DEF SetLatest, SetContent, Deliver, MailFails, mlAccount, mlLocal
  <2> QED
    BY <1>t, <2>3, <2>4, <2>5, <2>6, <2>7 DEF MLTypeOK
<1>6. ASSUME NEW c \in Codes, CodeExpires(c)
      PROVE  MLTypeOK' /\ UNCHANGED <<mailOf, activated, proven, mlpc, asked, content, target>>
  <2>1. codeEntry' \in [Codes -> Contents \cup {NoContent}]
    BY <1>t, <1>6 DEF CodeExpires, MLTypeOK
  <2> QED
    BY <1>t, <1>6, <2>1 DEF CodeExpires, MLTypeOK, mlAccount, mlLocal
<1>7. ASSUME NEW u \in Accounts, LatestExpires(u)
      PROVE  MLTypeOK' /\ UNCHANGED <<mailOf, activated, proven, mlpc, asked, content, target>>
  <2>1. latest' \in [Accounts -> 0..MaxCodes]
    BY <1>t, <1>7 DEF LatestExpires, MLTypeOK
  <2> QED
    BY <1>t, <1>7, <2>1 DEF LatestExpires, MLTypeOK, mlAccount, mlLocal
<1> QED
  BY <1>2, <1>3, <1>4, <1>5, <1>6, <1>7 DEF MLSend

-----------------------------------------------------------------------------
(* The requests. *)
LEMMA MLRequestInv ==
  ASSUME MLInv, NEW q \in Clients, MLRequest(q)
  PROVE  MLInv'
<1>t. MLTypeOK /\ RequestOK(q) /\ RequestProven(q) /\ proven \subseteq Addresses
  BY DEF MLInv, MLTypeOK
<1> DEFINE Others == \A r \in Clients \ {q} : /\ mlpc'[r] = mlpc[r] /\ asked'[r] = asked[r]
                                             /\ content'[r] = content[r] /\ target'[r] = target[r]
<1>1. ASSUME NEW a \in Addresses, Register(q, a) PROVE MLInv'
  <2> DEFINE k == [at |-> "register", code |-> 0, to |-> a]
  <2>1. /\ mlpc' = [mlpc EXCEPT ![q] = "add"] /\ asked' = [asked EXCEPT ![q] = k]
        /\ mlRequests' \in 0..MaxRequests
        /\ UNCHANGED <<mailOf, activated, password, channel, codeEntry, latest, mailing, mailbox,
                       nextCode, content, target, proven>>
    BY <1>t, <1>1 DEF Register, MLGoto, mlAccount, mlCodes, MLTypeOK
  <2>2. k \in Asks /\ k.to = a
    BY DEF Asks
  <2> HIDE DEF k
  <2>3. MLTypeOK'
    BY <1>t, <2>1, <2>2 DEF MLTypeOK, MLPCs
  <2>4. Others /\ RequestOK(q)' /\ RequestProven(q)'
    BY <1>t, <2>1, <2>2 DEF MLTypeOK, RequestOK, RequestProven, Following, Accepted
  <2> QED
    BY <1>t, <2>1, <2>3, <2>4, OthersProven DEF MLInv, MLTypeOK
<1>2. ASSUME NEW e \in Endpoints, NEW c \in Codes, Follow(q, e, c) PROVE MLInv'
  <2> DEFINE k == [at |-> e, code |-> c, to |-> NoAddress]
  <2>1. /\ mlpc' = [mlpc EXCEPT ![q] = "get"] /\ asked' = [asked EXCEPT ![q] = k]
        /\ mlRequests' \in 0..MaxRequests
        /\ UNCHANGED <<mailOf, activated, password, channel, codeEntry, latest, mailing, mailbox,
                       nextCode, content, target, proven>>
    BY <1>t, <1>2 DEF Follow, MLGoto, mlAccount, mlCodes, MLTypeOK
  <2>2. k \in Asks /\ k.code = c /\ k.at = e
    BY DEF Asks
  <2> HIDE DEF k
  <2>3. MLTypeOK'
    BY <1>t, <2>1, <2>2 DEF MLTypeOK, MLPCs
  <2>4. Others /\ RequestOK(q)' /\ RequestProven(q)'
    BY <1>t, <2>1, <2>2 DEF MLTypeOK, RequestOK, RequestProven, Following, Accepted
  <2> QED
    BY <1>t, <2>1, <2>3, <2>4, OthersProven DEF MLInv, MLTypeOK
<1>3. ASSUME AddUser(q) PROVE MLInv'
  <2>1. mlpc[q] = "add" /\ asked[q].to \in Addresses /\ MLReturn(q, "add")
    BY <1>t, <1>3 DEF AddUser, MLReturn, MLGoto, RequestOK
  <2>2. PICK u \in Accounts :
          /\ mailOf[u] = NoAddress
          /\ mailOf' = [mailOf EXCEPT ![u] = asked[q].to]
          /\ channel' = channel \cup {u}
          /\ SendAndSaveCode(u, asked[q].to, FALSE)
    BY <1>3 DEF AddUser
  <2>3. /\ nextCode' \in 1..(MaxCodes + 1) /\ mailing' \subseteq Mails
        /\ UNCHANGED <<codeEntry, latest, mailbox>>
    BY <1>t, <2>1, <2>2, SendType
  <2>4. UNCHANGED <<activated, password, mlRequests, proven>>
    BY <1>3 DEF AddUser
  <2>5. /\ mailOf' \in [Accounts -> Addresses \cup {NoAddress}] /\ channel' \subseteq Accounts
        /\ \A v \in Accounts : mailOf[v] \in proven => mailOf'[v] \in proven'
    BY <1>t, <2>1, <2>2, <2>4 DEF MLTypeOK
  <2>6. MLTypeOK'
    BY <1>t, <2>1, <2>3, <2>4, <2>5, MLReturnOK DEF MLTypeOK
  <2> QED
    BY <1>t, <2>1, <2>4, <2>5, <2>6, MLReturnOK, OthersProven DEF MLInv, MLTypeOK
<1>4. ASSUME GetCode(q) PROVE MLInv'
  <2>1. /\ mlpc[q] = "get" /\ mlpc' = [mlpc EXCEPT ![q] = "delete"]
        /\ content' = [content EXCEPT ![q] = codeEntry[asked[q].code]]
        /\ codeEntry[asked[q].code] # NoContent
        /\ UNCHANGED <<mailOf, activated, password, channel, codeEntry, latest, mailing, mailbox,
                       nextCode, asked, target, mlRequests, proven>>
    BY <1>4 DEF GetCode, MLGoto, mlAccount, mlCodes
  <2>2. asked[q].code \in Codes /\ asked[q].at \in Endpoints
    BY <1>t, <2>1 DEF RequestOK, Following
  <2>3. codeEntry[asked[q].code] \in Contents
    BY <1>t, <2>1, <2>2 DEF MLTypeOK
  <2>4. MLTypeOK'
    BY <1>t, <2>1, <2>3 DEF MLTypeOK, MLPCs
  <2>5. Others /\ RequestOK(q)' /\ RequestProven(q)'
    BY <1>t, <2>1, <2>2, <2>3 DEF MLTypeOK, RequestOK, RequestProven, Following, Accepted
  <2> QED
    BY <1>t, <2>1, <2>4, <2>5, OthersProven DEF MLInv, MLTypeOK
<1>5. ASSUME DeleteCode(q) PROVE MLInv'
  <2>1. /\ mlpc[q] = "delete" /\ mlpc' = [mlpc EXCEPT ![q] = "latest"]
        /\ codeEntry' = [codeEntry EXCEPT ![asked[q].code] = NoContent] \/ codeEntry' = codeEntry
        /\ UNCHANGED <<mailOf, activated, password, channel, latest, mailing, mailbox,
                       nextCode, asked, content, target, mlRequests, proven>>
    BY <1>5 DEF DeleteCode, MLGoto, mlAccount, mlLocal
  <2>2. MLTypeOK'
    BY <1>t, <2>1 DEF MLTypeOK, MLPCs
  <2>3. Others /\ RequestOK(q)' /\ RequestProven(q)'
    BY <1>t, <2>1 DEF MLTypeOK, RequestOK, RequestProven, Following, Accepted
  <2> QED
    BY <1>t, <2>1, <2>2, <2>3, OthersProven DEF MLInv, MLTypeOK
<1>6. ASSUME AcceptCode(q) PROVE MLInv'
  <2>1. /\ mlpc[q] = "latest" /\ mlpc' = [mlpc EXCEPT ![q] = Entry(asked[q].at)]
        /\ proven' = proven \cup {content[q].to}
        /\ UNCHANGED <<mailOf, activated, password, channel, codeEntry, latest, mailing, mailbox,
                       nextCode, asked, content, target, mlRequests>>
    BY <1>6 DEF AcceptCode, MLGoto, mlAccount, mlCodes, mlLocal
  <2>2. Entry(asked[q].at) \in {"unique", "unsubscribe", "find"}
    BY DEF Entry
  <2>3. content[q] \in Contents /\ asked[q].code \in Codes /\ asked[q].at \in Endpoints
    BY <1>t, <2>1 DEF RequestOK, Following
  <2>4. MLTypeOK'
    BY <1>t, <2>1, <2>2, <2>3 DEF MLTypeOK, MLPCs, Contents
  <2>5. Others /\ RequestOK(q)' /\ RequestProven(q)'
    BY <1>t, <2>1, <2>2, <2>3 DEF MLTypeOK, RequestOK, RequestProven, Following, Accepted
  <2> QED
    BY <1>t, <2>1, <2>4, <2>5, OthersProven DEF MLInv, MLTypeOK
<1>7. ASSUME FindByEmail(q) PROVE MLInv'
  <2>1. /\ mlpc[q] = "find"
        /\ mlpc' = [mlpc EXCEPT ![q] = IF asked[q].at = "reset" THEN "pass" ELSE "status"]
        /\ UNCHANGED <<mailOf, activated, password, channel, codeEntry, latest, mailing, mailbox,
                       nextCode, asked, content, mlRequests, proven>>
    BY <1>7 DEF FindByEmail, MLGoto, mlAccount, mlCodes
  <2>2. PICK u \in Having(content[q].to) : target' = [target EXCEPT ![q] = u]
    BY <1>7 DEF FindByEmail
  <2>3. u \in Accounts /\ mailOf[u] \in proven
    BY <1>t, <2>1 DEF Having, RequestProven, Accepted
  <2>4. MLTypeOK'
    BY <1>t, <2>1, <2>2, <2>3 DEF MLTypeOK, MLPCs
  <2>5. Others /\ RequestOK(q)' /\ RequestProven(q)'
    BY <1>t, <2>1, <2>2, <2>3 DEF MLTypeOK, RequestOK, RequestProven, Following, Accepted
  <2> QED
    BY <1>t, <2>1, <2>3, <2>4, <2>5, OthersProven DEF MLInv, MLTypeOK
<1>8. ASSUME UpdatePass(q) PROVE MLInv'
  <2>1. /\ mlpc[q] = "pass" /\ MLReturn(q, "pass")
        /\ password' = [password EXCEPT ![target[q]] = asked[q].code]
        /\ UNCHANGED <<mailOf, activated, channel, codeEntry, latest, mailing, mailbox,
                       nextCode, mlRequests, proven>>
    BY <1>8 DEF UpdatePass, MLReturn, MLGoto, mlCodes
  <2>2. target[q] \in Accounts /\ asked[q].code \in 0..MaxCodes
    BY <1>t, <2>1 DEF RequestOK, Following, Codes
  <2>3. password' \in [Accounts -> 0..MaxCodes]
    BY <1>t, <2>1, <2>2 DEF MLTypeOK
  <2>4. MLTypeOK'
    BY <1>t, <2>1, <2>3, MLReturnOK DEF MLTypeOK
  <2> QED
    BY <1>t, <2>1, <2>4, MLReturnOK, OthersProven DEF MLInv, MLTypeOK
<1>9. ASSUME UpdateEmailStatus(q) PROVE MLInv'
  <2>1. /\ mlpc[q] = "status" /\ MLReturn(q, "status") /\ activated' = activated \cup {target[q]}
        /\ UNCHANGED <<mailOf, password, channel, codeEntry, latest, mailing, mailbox,
                       nextCode, mlRequests, proven>>
    BY <1>9 DEF UpdateEmailStatus, MLReturn, MLGoto, mlCodes
  <2>2. target[q] \in Accounts /\ mailOf[target[q]] \in proven
    BY <1>t, <2>1 DEF RequestOK, RequestProven
  <2>3. MLTypeOK'
    BY <1>t, <2>1, <2>2, MLReturnOK DEF MLTypeOK
  <2> QED
    BY <1>t, <2>1, <2>2, <2>3, MLReturnOK, OthersProven DEF MLInv, MLTypeOK
<1>10. ASSUME CheckUnique(q) PROVE MLInv'
  <2>1. /\ mlpc[q] = "unique" /\ mlpc' = [mlpc EXCEPT ![q] = "email"]
        /\ UNCHANGED <<mailOf, activated, password, channel, codeEntry, latest, mailing, mailbox,
                       nextCode, asked, content, target, mlRequests, proven>>
    BY <1>10 DEF CheckUnique, MLGoto, mlAccount, mlCodes, mlLocal
  <2>2. MLTypeOK'
    BY <1>t, <2>1 DEF MLTypeOK, MLPCs
  <2>3. Others /\ RequestOK(q)' /\ RequestProven(q)'
    BY <1>t, <2>1 DEF MLTypeOK, RequestOK, RequestProven, Following, Accepted
  <2> QED
    BY <1>t, <2>1, <2>2, <2>3, OthersProven DEF MLInv, MLTypeOK
<1>11. ASSUME UpdateEmail(q) PROVE MLInv'
  <2>1. /\ mlpc[q] = "email" /\ mlpc' = [mlpc EXCEPT ![q] = "email_status"]
        /\ mailOf' = [mailOf EXCEPT ![content[q].user] = content[q].to]
        /\ UNCHANGED <<activated, password, channel, codeEntry, latest, mailing, mailbox,
                       nextCode, asked, content, target, mlRequests, proven>>
    BY <1>11 DEF UpdateEmail, MLGoto, mlCodes, mlLocal
  <2>2. content[q] \in Contents /\ content[q].user \in Accounts /\ content[q].to \in proven
    BY <1>t, <2>1 DEF RequestOK, RequestProven, Following, Accepted, Contents
  <2>3. /\ mailOf' \in [Accounts -> Addresses \cup {NoAddress}]
        /\ mailOf'[content[q].user] \in proven
        /\ \A u \in Accounts : mailOf[u] \in proven => mailOf'[u] \in proven
    BY <1>t, <2>1, <2>2 DEF MLTypeOK
  <2>4. MLTypeOK'
    BY <1>t, <2>1, <2>3 DEF MLTypeOK, MLPCs
  <2>5. Others /\ RequestOK(q)' /\ RequestProven(q)'
    BY <1>t, <2>1, <2>2, <2>3 DEF MLTypeOK, RequestOK, RequestProven, Following, Accepted
  <2> QED
    BY <1>t, <2>1, <2>3, <2>4, <2>5, OthersProven DEF MLInv, MLTypeOK
<1>12. ASSUME UpdateEmailStatusToo(q) PROVE MLInv'
  <2>1. /\ mlpc[q] = "email_status" /\ MLReturn(q, "email_status")
        /\ activated' = activated \cup {content[q].user}
        /\ UNCHANGED <<mailOf, password, channel, codeEntry, latest, mailing, mailbox,
                       nextCode, mlRequests, proven>>
    BY <1>12 DEF UpdateEmailStatusToo, MLReturn, MLGoto, mlCodes
  <2>2. content[q].user \in Accounts /\ mailOf[content[q].user] \in proven
    BY <1>t, <2>1 DEF RequestOK, RequestProven, Following, Contents
  <2>3. MLTypeOK'
    BY <1>t, <2>1, <2>2, MLReturnOK DEF MLTypeOK
  <2> QED
    BY <1>t, <2>1, <2>2, <2>3, MLReturnOK, OthersProven DEF MLInv, MLTypeOK
<1>13. ASSUME NEW from, MLReturn(q, from), UNCHANGED <<mlAccount, mlCodes, mlRequests, proven>>
       PROVE  MLInv'
  <2>1. UNCHANGED <<mailOf, activated, password, channel, codeEntry, latest, mailing, mailbox,
                    nextCode, mlRequests, proven>>
    BY <1>13 DEF mlAccount, mlCodes
  <2>2. MLTypeOK'
    BY <1>t, <1>13, <2>1, MLReturnOK DEF MLTypeOK
  <2> QED
    BY <1>t, <1>13, <2>1, <2>2, MLReturnOK, OthersProven DEF MLInv, MLTypeOK
<1>14. ASSUME \/ NoCode(q) \/ RefuseCode(q) \/ MLUserNotFound(q) \/ EmailDuplicate(q)
              \/ MLBreakOff(q)
       PROVE  MLInv'
  BY <1>13, <1>14 DEF NoCode, RefuseCode, MLUserNotFound, EmailDuplicate, MLBreakOff
<1>15. ASSUME Unsubscribe(q) PROVE MLInv'
  <2>1. /\ MLReturn(q, "unsubscribe") /\ channel' \subseteq channel
        /\ UNCHANGED <<mailOf, activated, password, codeEntry, latest, mailing, mailbox,
                       nextCode, mlRequests, proven>>
    BY <1>15 DEF Unsubscribe, mlCodes
  <2>2. MLTypeOK'
    BY <1>t, <2>1, MLReturnOK DEF MLTypeOK
  <2> QED
    BY <1>t, <2>1, <2>2, MLReturnOK, OthersProven DEF MLInv, MLTypeOK
<1> QED
  BY <1>1, <1>2, <1>3, <1>4, <1>5, <1>6, <1>7, <1>8, <1>9, <1>10, <1>11, <1>12, <1>14, <1>15
     DEF MLRequest

-----------------------------------------------------------------------------
LEMMA MLInvStep == MLInv /\ [MLNext]_mlVars => MLInv'
<1> SUFFICES ASSUME MLInv, [MLNext]_mlVars PROVE MLInv'
  OBVIOUS
<1>1. CASE UNCHANGED mlVars
  BY <1>1 DEF mlVars, mlAccount, mlCodes, mlLocal, MLInv, MLTypeOK, AddressProven, RequestOK,
              RequestProven
<1>2. CASE MLSend
  BY <1>2, MLSendInv
<1>3. ASSUME NEW q \in Clients, MLRequest(q) PROVE MLInv'
  BY <1>3, MLRequestInv
<1> QED
  BY <1>1, <1>2, <1>3 DEF MLNext

LEMMA MLInvAlways == MLSpec => []MLInv
BY MLInitInv, MLInvStep, PTL DEF MLSpec

(* Every variable of the mail links keeps its type. *)
THEOREM MailLinkTypes == MLSpec => []MLTypeOK
<1>1. MLInv => MLTypeOK
  BY DEF MLInv
<1> QED
  BY <1>1, MLInvAlways, PTL

(* UserVerifyEmail and UserChangeEmailVerify never activate an account whose
   address no accepted link was made for, however many requests overlap, links
   are overtaken, or requests break off. *)
THEOREM ActivatedAreProven == MLSpec => []AddressProven
<1>1. MLInv => AddressProven
  BY DEF MLInv
<1> QED
  BY <1>1, MLInvAlways, PTL
-----------------------------------------------------------------------------
(* Notifications. *)
USE NoticeAssumption DEF NoticeAssumption

RankRows == {i \in DOMAIN notices : notices[i].kind = "rank"}

(* A message that tells of a change of the worth is on its way. *)
RankOnItsWay ==
  \/ \E m \in owed : m.kind = "rank"
  \/ \E j \in 1..Len(mail) : mail[j].kind = "rank"

FanShape == [note : Notes, rest : SUBSET Followers]

NShape ==
  /\ worth \in since
  /\ since \subseteq 0..MaxRank
  /\ owed \subseteq Notes
  /\ mail \in Seq(Notes)
  /\ nwpc \in NWorkerPCs
  /\ nwpc # "recv" => Note \in Notes
  /\ sum \in 0..MaxRank
  /\ fans \subseteq FanShape
  /\ notices \in Seq(NoticeRows)
  /\ events \in 0..MaxEvents
  /\ losses \in 0..MaxLosses

(* Achievements of an object are told to Me alone, and never copied. *)
ToMe ==
  /\ \A m \in owed : m.kind = "rank" => m.to = Me
  /\ \A j \in 1..Len(mail) : mail[j].kind = "rank" => mail[j].to = Me
  /\ nwpc # "recv" /\ Note.kind = "rank" => Note.to = Me
  /\ \A f \in fans : f.note.kind = "update"
  /\ \A i \in RankRows : notices[i].to = Me

(* What the worker knows of the row, while it handles a rank message. *)
RowKnown ==
  /\ nwpc \in {"look", "sum", "update"} => Note.kind = "rank"
  /\ nwpc = "sum" => (IF foundId = 0 THEN RankRows = {} ELSE foundId \in RankRows)
  /\ nwpc = "update" => foundId \in RankRows
  /\ nwpc = "insert" /\ Note.kind = "rank" => RankRows = {}

OneRow == \A i, j \in RankRows : i = j

(* A number that is older than the last change that was told will be written
   again. *)
SumFresh ==
  losses = 0 =>
    /\ nwpc = "update" \/ (nwpc = "insert" /\ Note.kind = "rank") => sum \in since \/ RankOnItsWay
    /\ \A i \in RankRows :
         notices[i].worth \in since \/ RankOnItsWay \/ nwpc \in {"look", "sum", "update"}

NInv == NShape /\ ToMe /\ RowKnown /\ OneRow /\ SumFresh

-----------------------------------------------------------------------------
LEMMA NInitInv == NInit => NInv
<1> SUFFICES ASSUME NInit PROVE NInv
  OBVIOUS
<1>1. notices \in Seq(NoticeRows) /\ mail \in Seq(Notes) /\ Len(mail) = 0
  BY EmptySeq DEF NInit
<1>2. RankRows = {}
  BY DEF NInit, RankRows
<1>3. NShape
  BY <1>1 DEF NInit, NShape, NWorkerPCs, FanShape
<1> QED
  BY <1>1, <1>2, <1>3 DEF NInit, NInv, ToMe, RowKnown, OneRow, SumFresh

(* A sequence that gets one more element. *)
LEMMA OneMore ==
  ASSUME NEW S, NEW s \in Seq(S), NEW e \in S
  PROVE  /\ Append(s, e) \in Seq(S)
         /\ Len(s) \in Nat
         /\ Len(Append(s, e)) = Len(s) + 1
         /\ DOMAIN Append(s, e) = 1..(Len(s) + 1)
         /\ \A j \in 1..Len(s) : Append(s, e)[j] = s[j]
         /\ Append(s, e)[Len(s) + 1] = e
BY AppendProperties, LenProperties

(* The rows and their kinds are all that RankRows is about. *)
SameObjects ==
  /\ notices' \in Seq(NoticeRows)
  /\ DOMAIN notices' = DOMAIN notices
  /\ \A i \in DOMAIN notices :
       notices'[i].to = notices[i].to /\ notices'[i].kind = notices[i].kind

LEMMA RowsKept ==
  ASSUME SameObjects
  PROVE  RankRows' = RankRows
BY DEF SameObjects, RankRows

(* A table that is not written. *)
LEMMA RowsUnchanged ==
  ASSUME NShape, UNCHANGED notices
  PROVE  SameObjects
BY DEF NShape, SameObjects

(* A row that is written in place. *)
LEMMA RowsEdited ==
  ASSUME NShape,
         DOMAIN notices' = DOMAIN notices,
         \A i \in DOMAIN notices :
           /\ notices'[i] \in NoticeRows
           /\ notices'[i].to = notices[i].to
           /\ notices'[i].kind = notices[i].kind,
         notices' = [i \in DOMAIN notices |-> notices'[i]]
  PROVE  SameObjects
<1>1. Len(notices) \in Nat /\ DOMAIN notices = 1..Len(notices)
  BY LenProperties DEF NShape
<1>2. notices' \in [1..Len(notices) -> NoticeRows]
  BY <1>1
<1>3. notices' \in Seq(NoticeRows)
  BY <1>1, <1>2, SeqDef
<1> QED
  BY <1>3 DEF SameObjects

-----------------------------------------------------------------------------
(* What happens, and is sent. *)
LEMMA HappensInv ==
  ASSUME NInv, NEW k \in Kinds, Happens(k)
  PROVE  NInv'
<1> DEFINE m == [event |-> events + 1, kind |-> k, to |-> Me, copy |-> FALSE]
<1>1. /\ owed' = owed \cup {m}
      /\ UNCHANGED <<mail, nwpc, note, foundId, sum, fans, notices, losses>>
      /\ worth' \in since' /\ since' \subseteq 0..MaxRank
      /\ k # "rank" => UNCHANGED <<worth, since>>
      /\ events' \in 0..MaxEvents
  <2>1. /\ worth' \in since' /\ since' \subseteq 0..MaxRank
        /\ k # "rank" => UNCHANGED <<worth, since>>
    <3>1. CASE k = "rank"
      BY <3>1 DEF Happens
    <3>2. CASE k # "rank"
      <4>1. UNCHANGED <<worth, since>>
        BY <3>2 DEF Happens, nWorth
      <4> QED
        BY <4>1 DEF NInv, NShape
    <3> QED
      BY <3>1, <3>2
  <2> QED
    BY <2>1 DEF Happens, nWorker, nTables, NInv, NShape
<1>2. m \in Notes /\ m.kind = k /\ m.to = Me
  BY DEF Happens, Notes, NInv, NShape
<1> HIDE DEF m
<1>3. RankRows' = RankRows
  BY <1>1 DEF RankRows
<1>4. NShape'
  BY <1>1, <1>2 DEF NInv, NShape, Note
<1>5. ToMe'
  BY <1>1, <1>2, <1>3 DEF NInv, ToMe, Note
<1>6. RowKnown' /\ OneRow'
  BY <1>1, <1>3 DEF NInv, RowKnown, OneRow, Note
<1>7. SumFresh'
  <2>1. k = "rank" => RankOnItsWay'
    BY <1>1, <1>2 DEF RankOnItsWay
  <2>2. RankOnItsWay => RankOnItsWay'
    BY <1>1 DEF RankOnItsWay
  <2> QED
    BY <1>1, <1>3, <2>1, <2>2 DEF NInv, SumFresh, Note
<1> QED
  BY <1>4, <1>5, <1>6, <1>7 DEF NInv

(* A change that nobody is told of is one more thing that may be shown. *)
LEMMA HappensUntoldInv ==
  ASSUME NInv, HappensUntold
  PROVE  NInv'
<1>1. /\ UNCHANGED <<owed, mail, nwpc, note, foundId, sum, fans, notices, losses>>
      /\ worth' \in since' /\ since' \subseteq 0..MaxRank /\ since \subseteq since'
      /\ events' \in 0..MaxEvents
  BY DEF HappensUntold, nWorker, nTables, NInv, NShape
<1>2. RankRows' = RankRows /\ (RankOnItsWay <=> RankOnItsWay')
  BY <1>1 DEF RankRows, RankOnItsWay
<1>3. NShape' /\ ToMe'
  BY <1>1, <1>2 DEF NInv, NShape, ToMe, Note
<1>4. RowKnown' /\ OneRow'
  BY <1>1, <1>2 DEF NInv, RowKnown, OneRow, Note
<1>5. SumFresh'
  BY <1>1, <1>2 DEF NInv, SumFresh, Note
<1> QED
  BY <1>3, <1>4, <1>5 DEF NInv

LEMMA SendNoteInv ==
  ASSUME NInv, NEW m \in owed, SendNote(m)
  PROVE  NInv'
<1>1. /\ mail' = Append(mail, m)
      /\ owed' = owed \ {m}
      /\ UNCHANGED <<worth, since, nwpc, note, foundId, sum, fans, notices, losses, events>>
  BY DEF SendNote, nWorth, nWorker, nTables, nBounds
<1>2. mail \in Seq(Notes) /\ m \in Notes
  BY DEF NInv, NShape
<1>3. /\ mail' \in Seq(Notes)
      /\ Len(mail) \in Nat
      /\ Len(mail') = Len(mail) + 1
      /\ \A j \in 1..Len(mail) : mail'[j] = mail[j]
      /\ mail'[Len(mail) + 1] = m
  BY <1>1, <1>2, OneMore
<1>4. RankRows' = RankRows
  BY <1>1 DEF RankRows
<1>5. NShape'
  BY <1>1, <1>3 DEF NInv, NShape, Note
<1>6. ToMe'
  <2>1. \A j \in 1..Len(mail') : mail'[j] = m \/ \E i \in 1..Len(mail) : mail'[j] = mail[i]
    BY <1>3
  <2>2. \A j \in 1..Len(mail') : mail'[j].kind = "rank" => mail'[j].to = Me
    BY <2>1 DEF NInv, ToMe
  <2> QED
    BY <1>1, <1>4, <2>2 DEF NInv, ToMe, Note
<1>7. RowKnown' /\ OneRow'
  BY <1>1, <1>4 DEF NInv, RowKnown, OneRow, Note
<1>8. SumFresh'
  <2>1. RankOnItsWay => RankOnItsWay'
    <3>1. ASSUME NEW n \in owed, n.kind = "rank" PROVE RankOnItsWay'
      <4>1. CASE n = m
        <5>1. Len(mail) + 1 \in 1..Len(mail') /\ mail'[Len(mail) + 1].kind = "rank"
          BY <1>3, <3>1, <4>1
        <5> QED
          BY <5>1 DEF RankOnItsWay
      <4>2. CASE n # m
        BY <1>1, <3>1, <4>2 DEF RankOnItsWay
      <4> QED
        BY <4>1, <4>2
    <3>2. ASSUME NEW j \in 1..Len(mail), mail[j].kind = "rank" PROVE RankOnItsWay'
      <4>1. j \in 1..Len(mail') /\ mail'[j].kind = "rank"
        BY <1>3, <3>2
      <4> QED
        BY <4>1 DEF RankOnItsWay
    <3> QED
      BY <3>1, <3>2 DEF RankOnItsWay
  <2> QED
    BY <1>1, <1>4, <2>1 DEF NInv, SumFresh, Note
<1> QED
  BY <1>5, <1>6, <1>7, <1>8 DEF NInv

(* A copy is never of a rank message. *)
LEMMA SendCopyInv ==
  ASSUME NInv, NEW f \in fans, SendCopy(f)
  PROVE  NInv'
<1>1. PICK u \in f.rest :
        /\ mail' = Append(mail, [f.note EXCEPT !.to = u, !.copy = TRUE])
        /\ fans' = (fans \ {f}) \cup
                   (IF f.rest = {u} THEN {} ELSE {[f EXCEPT !.rest = @ \ {u}]})
  BY DEF SendCopy
<1> DEFINE m == [f.note EXCEPT !.to = u, !.copy = TRUE]
<1>2. UNCHANGED <<worth, since, owed, nwpc, note, foundId, sum, notices, losses, events>>
  BY DEF SendCopy, nWorth, nWorker, nTables, nBounds
<1>3. f.note \in Notes /\ f.rest \subseteq Followers /\ f.note.kind = "update"
  BY DEF NInv, NShape, FanShape, ToMe
<1>4. m \in Notes /\ m.kind = "update"
  BY <1>3 DEF Notes
<1>5. fans' \subseteq FanShape /\ \A g \in fans' : g.note.kind = "update"
  BY <1>1, <1>3 DEF NInv, NShape, FanShape, ToMe
<1>6. mail \in Seq(Notes) /\ mail' = Append(mail, m)
  BY <1>1 DEF NInv, NShape
<1> HIDE DEF m
<1>7. /\ mail' \in Seq(Notes)
      /\ Len(mail) \in Nat
      /\ Len(mail') = Len(mail) + 1
      /\ \A j \in 1..Len(mail) : mail'[j] = mail[j]
      /\ mail'[Len(mail) + 1] = m
  BY <1>4, <1>6, OneMore
<1>8. RankRows' = RankRows
  BY <1>2 DEF RankRows
<1>9. NShape'
  BY <1>2, <1>5, <1>7 DEF NInv, NShape, Note
<1>10. ToMe'
  <2>1. \A j \in 1..Len(mail') : mail'[j] = m \/ \E i \in 1..Len(mail) : mail'[j] = mail[i]
    BY <1>7
  <2>2. \A j \in 1..Len(mail') : mail'[j].kind = "rank" => mail'[j].to = Me
    BY <1>4, <2>1 DEF NInv, ToMe
  <2> QED
    BY <1>2, <1>5, <1>8, <2>2 DEF NInv, ToMe, Note
<1>11. RowKnown' /\ OneRow'
  BY <1>2, <1>8 DEF NInv, RowKnown, OneRow, Note
<1>12. SumFresh'
  <2>1. \A j \in 1..Len(mail) : j \in 1..Len(mail') /\ mail'[j] = mail[j]
    BY <1>7
  <2>2. RankOnItsWay => RankOnItsWay'
    BY <1>2, <2>1 DEF RankOnItsWay
  <2> QED
    BY <1>2, <1>8, <2>2 DEF NInv, SumFresh, Note
<1> QED
  BY <1>9, <1>10, <1>11, <1>12 DEF NInv
-----------------------------------------------------------------------------
(* The worker. *)
LEMMA ReceiveInv ==
  ASSUME NInv, Receive
  PROVE  NInv'
<1>1. /\ mail # <<>> /\ nwpc = "recv"
      /\ nwpc' = (IF Head(mail).kind = "rank" THEN "look" ELSE "insert")
      /\ note' = <<Head(mail)>>
      /\ mail' = Tail(mail)
      /\ sum' = 0
      /\ UNCHANGED <<worth, since, owed, fans, notices, losses, events>>
  BY DEF Receive, NWGoto, nWorth, nTables, nBounds
<1>2. mail \in Seq(Notes)
  BY DEF NInv, NShape
<1>3. /\ Head(mail) \in Notes /\ Head(mail) = mail[1]
      /\ mail' \in Seq(Notes)
      /\ Len(mail) \in Nat \ {0}
      /\ Len(mail') = Len(mail) - 1
      /\ \A j \in 1..Len(mail') : mail'[j] = mail[j + 1]
  BY <1>1, <1>2, HeadTailProperties, EmptySeq
<1>4. Note' = Head(mail)
  BY <1>1 DEF Note
<1>5. RankRows' = RankRows
  BY <1>1 DEF RankRows
<1>6. NShape'
  BY <1>1, <1>3, <1>4 DEF NInv, NShape, NWorkerPCs
<1>7. ToMe'
  <2>1. Head(mail).kind = "rank" => Head(mail).to = Me
    BY <1>3 DEF NInv, ToMe
  <2>2. \A j \in 1..Len(mail') : mail'[j].kind = "rank" => mail'[j].to = Me
    BY <1>3 DEF NInv, ToMe
  <2> QED
    BY <1>1, <1>4, <1>5, <2>1, <2>2 DEF NInv, ToMe
<1>8. RowKnown' /\ OneRow'
  BY <1>1, <1>4, <1>5 DEF NInv, RowKnown, OneRow
<1>9. SumFresh'
  <2>1. RankOnItsWay => RankOnItsWay' \/ nwpc' = "look"
    <3>1. ASSUME NEW j \in 1..Len(mail), mail[j].kind = "rank", nwpc' # "look" PROVE RankOnItsWay'
      <4>1. j # 1 /\ j - 1 \in 1..Len(mail') /\ mail'[j - 1].kind = "rank"
        BY <1>1, <1>3, <3>1
      <4> QED
        BY <4>1 DEF RankOnItsWay
    <3> QED
      BY <1>1, <3>1 DEF RankOnItsWay
  <2> QED
    BY <1>1, <1>4, <1>5, <2>1 DEF NInv, SumFresh
<1> QED
  BY <1>6, <1>7, <1>8, <1>9 DEF NInv

LEMMA AddFailsInv ==
  ASSUME NInv, AddFails
  PROVE  NInv'
<1>1. /\ losses < MaxLosses /\ losses' = losses + 1 /\ nwpc' = "recv"
      /\ UNCHANGED <<worth, since, owed, mail, sum, fans, notices, events>>
  BY DEF AddFails, nWorth, nTables
<1>2. RankRows' = RankRows
  BY <1>1 DEF RankRows
<1>3. NShape' /\ ToMe'
  BY <1>1, <1>2 DEF NInv, NShape, ToMe, NWorkerPCs
<1>4. RowKnown' /\ OneRow' /\ SumFresh'
  BY <1>1, <1>2 DEF NInv, NShape, RowKnown, OneRow, SumFresh
<1> QED
  BY <1>3, <1>4 DEF NInv

LEMMA LookUpInv ==
  ASSUME NInv, LookUp
  PROVE  NInv'
<1>1. /\ nwpc = "look" /\ nwpc' = "sum"
      /\ foundId' \in (IF RowsOfObject = {} THEN {0} ELSE RowsOfObject)
      /\ UNCHANGED <<worth, since, owed, mail, note, sum, fans, notices, losses, events>>
  BY DEF LookUp, NWGoto, nWorth, nTables, nBounds
<1>2. RankRows' = RankRows
  BY <1>1 DEF RankRows
<1>3. DOMAIN notices = 1..Len(notices)
  BY LenProperties DEF NInv, NShape
<1>4. RowsOfObject = RankRows
  BY <1>1, <1>3 DEF RowsOfObject, RankRows, NInv, ToMe, RowKnown
<1>5. 0 \notin RankRows
  BY <1>3, LenProperties DEF RankRows, NInv, NShape
<1>6. NShape' /\ ToMe'
  BY <1>1, <1>2 DEF NInv, NShape, ToMe, NWorkerPCs, Note
<1>7. RowKnown' /\ OneRow'
  BY <1>1, <1>2, <1>4, <1>5 DEF NInv, RowKnown, OneRow, Note
<1>8. SumFresh'
  BY <1>1, <1>2 DEF NInv, SumFresh, RankOnItsWay
<1> QED
  BY <1>6, <1>7, <1>8 DEF NInv

LEMMA ReadSumInv ==
  ASSUME NInv, ReadSum
  PROVE  NInv'
<1>1. /\ nwpc = "sum" /\ nwpc' = (IF foundId # 0 THEN "update" ELSE "insert")
      /\ sum' = worth
      /\ UNCHANGED <<worth, since, owed, mail, note, foundId, fans, notices, losses, events>>
  BY DEF ReadSum, NWGoto, nWorth, nTables, nBounds
<1>2. RankRows' = RankRows
  BY <1>1 DEF RankRows
<1>3. NShape' /\ ToMe'
  BY <1>1, <1>2 DEF NInv, NShape, ToMe, NWorkerPCs, Note
<1>4. RowKnown' /\ OneRow'
  BY <1>1, <1>2 DEF NInv, RowKnown, OneRow, Note
<1>5. SumFresh'
  BY <1>1, <1>2 DEF NInv, NShape, RowKnown, SumFresh, RankOnItsWay
<1> QED
  BY <1>3, <1>4, <1>5 DEF NInv

LEMMA UpdateContentInv ==
  ASSUME NInv, UpdateContent
  PROVE  NInv'
<1>1. /\ nwpc = "update" /\ nwpc' = "recv"
      /\ notices' = [notices EXCEPT ![foundId].worth = sum]
      /\ UNCHANGED <<worth, since, owed, mail, sum, fans, losses, events>>
  BY DEF UpdateContent, NWGoto, nWorth, nBounds
<1>2. foundId \in RankRows /\ foundId \in DOMAIN notices
  BY <1>1 DEF NInv, RowKnown, RankRows
<1>3. \A i \in DOMAIN notices : notices[i] \in NoticeRows
  BY LenProperties, ElementOfSeq DEF NInv, NShape
<1>4. \A i \in DOMAIN notices :
        /\ notices'[i] \in NoticeRows
        /\ notices'[i].to = notices[i].to
        /\ notices'[i].kind = notices[i].kind
        /\ i = foundId => notices'[i].worth = sum
  BY <1>1, <1>3 DEF NoticeRows, NInv, NShape
<1>5. DOMAIN notices' = DOMAIN notices /\ notices' = [i \in DOMAIN notices |-> notices'[i]]
  BY <1>1
<1>6. SameObjects
  BY <1>4, <1>5, RowsEdited DEF NInv
<1>7. RankRows' = RankRows
  BY <1>6, RowsKept
<1>8. NShape'
  BY <1>1, <1>6 DEF NInv, NShape, NWorkerPCs, SameObjects
<1>9. ToMe'
  BY <1>1, <1>6, <1>7 DEF NInv, ToMe, SameObjects, RankRows
<1>10. RowKnown' /\ OneRow'
  BY <1>1, <1>7 DEF NInv, RowKnown, OneRow
<1>11. SumFresh'
  <2>1. \A i \in RankRows : i = foundId /\ notices'[i].worth = sum
    BY <1>2, <1>4 DEF NInv, OneRow
  <2> QED
    BY <1>1, <1>7, <2>1 DEF NInv, SumFresh, RankOnItsWay
<1> QED
  BY <1>8, <1>9, <1>10, <1>11 DEF NInv

LEMMA InsertNoticeInv ==
  ASSUME NInv, InsertNotice
  PROVE  NInv'
<1> DEFINE r == [to |-> Note.to, kind |-> Note.kind, worth |-> sum, read |-> FALSE]
<1>1. /\ nwpc = "insert" /\ nwpc' = "dot"
      /\ notices' = Append(notices, r)
      /\ UNCHANGED <<worth, since, owed, mail, note, foundId, sum, fans, losses, events>>
  BY DEF InsertNotice, NWGoto, nWorth, nBounds
<1>2. Note \in Notes
  BY <1>1 DEF NInv, NShape
<1>3. /\ r \in NoticeRows
      /\ r.kind = Note.kind /\ r.to = Note.to /\ r.worth = sum
  BY <1>2 DEF NoticeRows, Notes, NInv, NShape
<1>4. notices \in Seq(NoticeRows) /\ DOMAIN notices = 1..Len(notices)
  BY LenProperties DEF NInv, NShape
<1> HIDE DEF r
<1>5. /\ notices' \in Seq(NoticeRows)
      /\ Len(notices) \in Nat
      /\ DOMAIN notices' = 1..(Len(notices) + 1)
      /\ \A j \in 1..Len(notices) : notices'[j] = notices[j]
      /\ notices'[Len(notices) + 1] = r
  BY <1>1, <1>3, <1>4, OneMore
<1>6. RankRows' = RankRows \cup (IF Note.kind = "rank" THEN {Len(notices) + 1} ELSE {})
  BY <1>3, <1>4, <1>5 DEF RankRows
<1>7. \A i \in RankRows : i \in 1..Len(notices)
  BY <1>4 DEF RankRows
<1>8. NShape'
  BY <1>1, <1>2, <1>5 DEF NInv, NShape, NWorkerPCs, Note
<1>9. ToMe'
  <2>1. \A i \in RankRows' : notices'[i].to = Me
    BY <1>1, <1>3, <1>5, <1>6, <1>7 DEF NInv, ToMe
  <2> QED
    BY <1>1, <2>1 DEF NInv, ToMe, Note
<1>10. RowKnown' /\ OneRow'
  BY <1>1, <1>6 DEF NInv, RowKnown, OneRow, Note
<1>11. SumFresh'
  <2>1. RankOnItsWay' <=> RankOnItsWay
    BY <1>1 DEF RankOnItsWay
  <2>2. ASSUME losses = 0, NEW i \in RankRows' PROVE notices'[i].worth \in since \/ RankOnItsWay
    <3>1. CASE i \in RankRows
      BY <1>1, <1>5, <1>7, <2>2, <3>1 DEF NInv, SumFresh
    <3>2. CASE i = Len(notices) + 1 /\ Note.kind = "rank"
      BY <1>1, <1>3, <1>5, <2>2, <3>2 DEF NInv, SumFresh
    <3> QED
      BY <1>6, <3>1, <3>2
  <2> QED
    BY <1>1, <2>1, <2>2 DEF SumFresh
<1> QED
  BY <1>8, <1>9, <1>10, <1>11 DEF NInv

(* The red dots and the alerts, then on to the next message or the copies. *)
LEMMA DotsInv ==
  ASSUME NInv, LookAtDot \/ IncreaseDot \/ SetDot \/ ReadAlert \/ WriteAlert
  PROVE  NInv'
<1>1. /\ nwpc \in {"dot", "increase", "set", "alert", "alert_set"}
      /\ nwpc' \in {"increase", "set", "alert", "alert_set", "fan"}
      /\ UNCHANGED <<worth, since, owed, mail, note, sum, fans, notices, losses, events>>
  BY DEF LookAtDot, IncreaseDot, SetDot, ReadAlert, WriteAlert, NWGoto, AfterDot, nWorth, nTables, nBounds
<1>2. RankRows' = RankRows
  BY <1>1 DEF RankRows
<1>3. NShape'
  BY <1>1 DEF NInv, NShape, NWorkerPCs, Note
<1>4. ToMe'
  BY <1>1, <1>2 DEF NInv, ToMe, Note
<1>5. RowKnown' /\ OneRow' /\ SumFresh'
  BY <1>1, <1>2 DEF NInv, RowKnown, OneRow, SumFresh, RankOnItsWay
<1> QED
  BY <1>3, <1>4, <1>5 DEF NInv

LEMMA FanOutInv ==
  ASSUME NInv, FanOut
  PROVE  NInv'
<1>1. /\ nwpc = "fan" /\ nwpc' = "recv"
      /\ fans' = IF Audience = {} THEN fans ELSE fans \cup {[note |-> Note, rest |-> Audience]}
      /\ UNCHANGED <<worth, since, owed, mail, sum, notices, losses, events>>
  BY DEF FanOut, NWGoto, nWorth, nTables, nBounds
<1>2. RankRows' = RankRows
  BY <1>1 DEF RankRows
<1>3. Note \in Notes
  BY <1>1 DEF NInv, NShape
<1>4. Audience \subseteq Followers /\ (Audience # {} => Note.kind = "update")
  BY DEF Audience
<1>5. fans' \subseteq FanShape /\ \A f \in fans' : f.note.kind = "update"
  BY <1>1, <1>3, <1>4 DEF NInv, NShape, FanShape, ToMe
<1>6. NShape' /\ ToMe'
  BY <1>1, <1>2, <1>5 DEF NInv, NShape, ToMe, NWorkerPCs
<1>7. RowKnown' /\ OneRow' /\ SumFresh'
  BY <1>1, <1>2 DEF NInv, RowKnown, OneRow, SumFresh, RankOnItsWay
<1> QED
  BY <1>6, <1>7 DEF NInv

-----------------------------------------------------------------------------
(* A request writes rows in place or none, and nothing else the invariant is
   about. *)
LEMMA RequestInv ==
  ASSUME NInv, SameObjects,
         \A i \in RankRows : notices'[i].worth = notices[i].worth,
         UNCHANGED <<worth, since, owed, mail, nwpc, note, foundId, sum, fans, losses, events>>
  PROVE  NInv'
<1>1. RankRows' = RankRows
  BY RowsKept
<1>2. NShape'
  BY DEF NInv, NShape, SameObjects, Note
<1>3. ToMe'
  BY <1>1 DEF NInv, ToMe, SameObjects, RankRows, Note
<1>4. RowKnown' /\ OneRow'
  BY <1>1 DEF NInv, RowKnown, OneRow, Note
<1>5. SumFresh'
  BY <1>1 DEF NInv, SumFresh, RankOnItsWay, Note
<1> QED
  BY <1>2, <1>3, <1>4, <1>5 DEF NInv

LEMMA ClearUnReadInv ==
  ASSUME NInv, NEW y \in Types, ClearUnRead(y)
  PROVE  NInv'
<1>1. /\ notices' = [i \in DOMAIN notices |->
                       IF notices[i].to = Me /\ TypeOf(notices[i].kind) = y
                       THEN [notices[i] EXCEPT !.read = TRUE] ELSE notices[i]]
      /\ UNCHANGED <<worth, since, owed, mail, nwpc, note, foundId, sum, fans, losses, events>>
  BY DEF ClearUnRead, nWorth, nWorker, nBounds
<1>2. \A i \in DOMAIN notices : notices[i] \in NoticeRows
  BY LenProperties, ElementOfSeq DEF NInv, NShape
<1>3. \A i \in DOMAIN notices :
        /\ notices'[i] \in NoticeRows
        /\ notices'[i].to = notices[i].to
        /\ notices'[i].kind = notices[i].kind
        /\ notices'[i].worth = notices[i].worth
  <2> SUFFICES ASSUME NEW i \in DOMAIN notices
               PROVE  /\ notices'[i] \in NoticeRows
                      /\ notices'[i].to = notices[i].to
                      /\ notices'[i].kind = notices[i].kind
                      /\ notices'[i].worth = notices[i].worth
    OBVIOUS
  <2>1. notices'[i] = notices[i] \/ notices'[i] = [notices[i] EXCEPT !.read = TRUE]
    BY <1>1
  <2> QED
    BY <1>2, <2>1 DEF NoticeRows
<1>4. DOMAIN notices' = DOMAIN notices /\ notices' = [i \in DOMAIN notices |-> notices'[i]]
  BY <1>1
<1>5. SameObjects
  BY <1>3, <1>4, RowsEdited DEF NInv
<1> QED
  BY <1>1, <1>3, <1>5, RequestInv DEF RankRows

LEMMA MarkReadInv ==
  ASSUME NInv, NEW t \in Tabs, MarkRead(t)
  PROVE  NInv'
<1>1. /\ notices' = [notices EXCEPT ![tab[t].id].read = TRUE]
      /\ UNCHANGED <<worth, since, owed, mail, nwpc, note, foundId, sum, fans, losses, events>>
  BY DEF MarkRead, nWorth, nWorker, nBounds
<1>2. \A i \in DOMAIN notices : notices[i] \in NoticeRows
  BY LenProperties, ElementOfSeq DEF NInv, NShape
<1>3. \A i \in DOMAIN notices :
        /\ notices'[i] \in NoticeRows
        /\ notices'[i].to = notices[i].to
        /\ notices'[i].kind = notices[i].kind
        /\ notices'[i].worth = notices[i].worth
  BY <1>1, <1>2 DEF NoticeRows
<1>4. DOMAIN notices' = DOMAIN notices /\ notices' = [i \in DOMAIN notices |-> notices'[i]]
  BY <1>1
<1>5. SameObjects
  BY <1>3, <1>4, RowsEdited DEF NInv
<1> QED
  BY <1>1, <1>3, <1>5, RequestInv DEF RankRows

(* The other statements of a request: dots and alerts. *)
LEMMA OtherRequestsInv ==
  ASSUME NInv,
         \/ \E y \in Types : ClearRedDot(y)
         \/ \E t \in Tabs : \/ \E i \in DOMAIN notices : ClearIDUnRead(t, i)
                            \/ ReadAlerts(t) \/ RemoveAlert(t)
                            \/ NoDotToDecrease(t) \/ DotToDecrease(t)
                            \/ DecreaseDot(t) \/ DecreaseFails(t) \/ DeleteDot(t)
  PROVE  NInv'
<1>1. UNCHANGED <<worth, since, owed, mail, nwpc, note, foundId, sum, fans, notices, losses, events>>
  BY DEF ClearRedDot, ClearIDUnRead, ReadAlerts, RemoveAlert, NoDotToDecrease, DotToDecrease,
         DecreaseDot, DecreaseFails, DeleteDot, nWorth, nWorker, nTables, nBounds
<1>2. SameObjects
  BY <1>1, RowsUnchanged DEF NInv
<1> QED
  BY <1>1, <1>2, RequestInv

-----------------------------------------------------------------------------
LEMMA NInvStep == NInv /\ [NNext]_nVars => NInv'
<1> SUFFICES ASSUME NInv, [NNext]_nVars PROVE NInv'
  OBVIOUS
<1>1. CASE UNCHANGED nVars
  <2>1. UNCHANGED <<worth, since, owed, mail, nwpc, note, foundId, sum, fans, notices, losses, events>>
    BY <1>1 DEF nVars, nWorth, nWorker, nTables, nBounds
  <2>2. SameObjects
    BY <2>1, RowsUnchanged DEF NInv
  <2> QED
    BY <2>1, <2>2, RequestInv
<1>2. CASE \E k \in Kinds : Happens(k)
  BY <1>2, HappensInv
<1>3. CASE \E m \in owed : SendNote(m)
  BY <1>3, SendNoteInv
<1>4. CASE NWorker
  BY <1>4, ReceiveInv, LookUpInv, ReadSumInv, UpdateContentInv, InsertNoticeInv, DotsInv, FanOutInv
     DEF NWorker
<1>5. CASE AddFails
  BY <1>5, AddFailsInv
<1>6. CASE \E f \in fans : SendCopy(f)
  BY <1>6, SendCopyInv
<1>7. CASE \E y \in Types : ClearRedDot(y) \/ ClearUnRead(y)
  BY <1>7, ClearUnReadInv, OtherRequestsInv
<1>8. CASE \E t \in Tabs : \/ \E i \in DOMAIN notices : ClearIDUnRead(t, i)
                           \/ NClear(t)
  BY <1>8, MarkReadInv, OtherRequestsInv DEF NClear
<1>9. CASE HappensUntold
  BY <1>9, HappensUntoldInv
<1> QED
  BY <1>1, <1>2, <1>3, <1>4, <1>5, <1>6, <1>7, <1>8, <1>9 DEF NNext

LEMMA NInvAlways == NSpec => []NInv
BY NInitInv, NInvStep, PTL DEF NSpec

(* AddNotification never gives a user a second achievement notification of an
   object: the row that GetByUserIdObjectIdTypeId did not find is inserted by
   the worker that did not find it, before it takes another message. *)
THEOREM OneAchievementPerObject == NSpec => []OneNoticePerObject
<1>1. NInv => OneNoticePerObject
  BY DEF NInv, OneRow, RankRows, OneNoticePerObject
<1> QED
  BY <1>1, NInvAlways, PTL

(* When every message was handled and none was lost, the achievement notification
   shows a sum that is no older than the last change that was told, although
   AddNotification reads the sum later than the vote that it tells of. *)
THEOREM AchievementsShowTheRank == NSpec => []RankShown
<1>1. NInv => RankShown
  <2> SUFFICES ASSUME NInv, owed = {}, mail = <<>>, nwpc = "recv", losses = 0,
                      NEW i \in DOMAIN notices, notices[i].kind = "rank"
               PROVE  notices[i].worth \in since
    BY DEF RankShown
  <2>1. ~RankOnItsWay
    BY DEF RankOnItsWay
  <2> QED
    BY <2>1 DEF NInv, SumFresh, RankRows
<1> QED
  BY <1>1, NInvAlways, PTL

-----------------------------------------------------------------------------
(* The in-process queue. *)
USE QueueAssumption DEF QueueAssumption

(* In the initial state nobody is inside the mutex and nothing was sent. *)
LEMMA InitInv == Init => Inv
<1> SUFFICES ASSUME Init PROVE Inv
  OBVIOUS
<1> USE DEF Init, Mu!MutexInit
<1>1. TypeOK
  <2>1. /\ chan \in Seq(Messages) /\ Len(chan) = 0
        /\ sent \in Seq(Messages) /\ received \in Seq(Messages)
    OBVIOUS
  <2>2. /\ pc \in [Threads -> PCs] /\ issued \in [Senders -> 0..MaxSends]
        /\ early \in [Senders -> 0..MaxSends]
    BY DEF PCs
  <2>3. Len(chan) \in 0..Capacity
    BY <2>1
  <2>4. Mu!MutexTypeOK
    BY DEF Mu!MutexTypeOK
  <2>5. /\ chanClosed \in BOOLEAN /\ closed \in BOOLEAN /\ handlerSet \in BOOLEAN
        /\ cancelled \subseteq Cancellable /\ dropped \subseteq Nat
    OBVIOUS
  <2> QED
    BY <2>1, <2>2, <2>3, <2>4, <2>5 DEF TypeOK
<1>2. ProgramCounters
  BY DEF ProgramCounters, Threads
<1>3. LockDiscipline
  BY DEF LockDiscipline, Threads
<1>4. CallsIssued
  BY DEF CallsIssued, Threads
<1>5. CloseProtocol
  BY DEF CloseProtocol, Threads
<1>6. Conserved
  BY DEF Conserved
<1>7. SentIssued
  BY DEF SentIssued
<1>8. DropHistory
  BY DEF DropHistory, HandledOnceRegistered, Threads
<1> QED
  BY <1>1, <1>2, <1>3, <1>4, <1>5, <1>6, <1>7, <1>8 DEF Inv

(* Every step of a sender, a closer, a registrar or the worker keeps the types. *)
LEMMA TypeStep == TypeOK /\ ProgramCounters /\ CallsIssued /\ [Next]_vars => TypeOK'
<1> SUFFICES ASSUME TypeOK, ProgramCounters, CallsIssued, [Next]_vars PROVE TypeOK'
  OBVIOUS
<1> USE DEF TypeOK, Mu!MutexTypeOK, PCs, Threads, Goto, mutex, history
<1>1. ASSUME NEW s \in Senders, SendCall(s) PROVE TypeOK'
  BY <1>1 DEF SendCall, Mu!RLock
<1>2. ASSUME NEW s \in Senders, Cancel(s) PROVE TypeOK'
  BY <1>2 DEF Cancel
<1>3. ASSUME NEW s \in Senders, SendRejected(s) PROVE TypeOK'
  BY <1>3 DEF SendRejected, Mu!RUnlock
<1>4. ASSUME NEW s \in Senders, SendOpen(s) PROVE TypeOK'
  BY <1>4 DEF SendOpen
<1>5. ASSUME NEW s \in Senders, SendEnqueue(s) PROVE TypeOK'
  <2> DEFINE msg == <<s, issued[s]>>
  <2>1. msg \in Messages
    BY <1>5 DEF SendEnqueue, CallsIssued, Messages
  <2>2. /\ Append(chan, msg) \in Seq(Messages)
        /\ Append(sent, msg) \in Seq(Messages)
        /\ Len(Append(chan, msg)) = Len(chan) + 1
    BY <2>1
  <2> QED
    BY <1>5, <2>2 DEF SendEnqueue, Mu!RUnlock
<1>6. ASSUME NEW s \in Senders, SendCancelled(s) PROVE TypeOK'
  BY <1>6 DEF SendCancelled, Mu!RUnlock
<1>7. ASSUME NEW t \in Closers \cup Registrars, LockCall(t) PROVE TypeOK'
  BY <1>7 DEF LockCall
<1>8. ASSUME NEW t \in Closers \cup Registrars, LockAnnounce(t) PROVE TypeOK'
  BY <1>8 DEF LockAnnounce, Mu!Announce
<1>9. ASSUME NEW c \in Closers, CloseAgain(c) PROVE TypeOK'
  BY <1>9 DEF CloseAgain, Mu!Unlock
<1>10. ASSUME NEW c \in Closers, CloseFirst(c) PROVE TypeOK'
  BY <1>10 DEF CloseFirst, Mu!Unlock
<1>11. ASSUME NEW c \in Closers, CloseChannel(c) PROVE TypeOK'
  BY <1>11 DEF CloseChannel
<1>12. ASSUME NEW c \in Closers, CloseReturn(c) PROVE TypeOK'
  BY <1>12 DEF CloseReturn
<1>13. ASSUME NEW r \in Registrars, RegisterHandler(r) PROVE TypeOK'
  BY <1>13 DEF RegisterHandler, Mu!Unlock
<1>14. ASSUME WorkerReceive PROVE TypeOK'
  <2>0. chan # <<>> /\ chan \in Seq(Messages) /\ Len(chan) \in 0..Capacity
    BY <1>14 DEF WorkerReceive
  <2>1. /\ Head(chan) \in Messages
        /\ Tail(chan) \in Seq(Messages)
        /\ Len(Tail(chan)) \in 0..Capacity
    BY ONLY <2>0, QueueAssumption, SMT DEF QueueAssumption
  <2>2. Append(received, Head(chan)) \in Seq(Messages)
    BY <2>1
  <2> QED
    BY <1>14, <2>1, <2>2 DEF WorkerReceive, Mu!RLock
<1>15. ASSUME WorkerDrop PROVE TypeOK'
  <2>1. Len(received) \in Nat
    OBVIOUS
  <2> QED
    BY <1>15, <2>1 DEF WorkerDrop, Mu!RUnlock
<1>16. ASSUME WorkerFetchHandler PROVE TypeOK'
  BY <1>16 DEF WorkerFetchHandler, Mu!RUnlock
<1>17. ASSUME WorkerHandled PROVE TypeOK'
  BY <1>17 DEF WorkerHandled
<1>18. ASSUME WorkerExit PROVE TypeOK'
  BY <1>18 DEF WorkerExit
<1>19. ASSUME UNCHANGED vars PROVE TypeOK'
  BY <1>19 DEF vars
<1> QED
  BY <1>1, <1>2, <1>3, <1>4, <1>5, <1>6, <1>7, <1>8, <1>9, <1>10, <1>11, <1>12,
     <1>13, <1>14, <1>15, <1>16, <1>17, <1>18, <1>19
     DEF Next, SendStep, CloseStep, RegisterStep, WorkerStep, Quiescent, Stuck

(* A step keeps the program counters, the lock discipline and the order of
   closing: a closer gets the write lock only when no sender is in its select. *)
LEMMA ControlStep == TypeOK /\ ProgramCounters /\ LockDiscipline /\ CallsIssued /\ [Next]_vars => (ProgramCounters /\ CallsIssued)'
<1> SUFFICES ASSUME TypeOK, ProgramCounters, LockDiscipline, CallsIssued, [Next]_vars PROVE (ProgramCounters /\ CallsIssued)'
  OBVIOUS
<1> USE DEF TypeOK, ProgramCounters, LockDiscipline, CallsIssued, PCs, Threads, Goto, mutex, history
<1>1. ASSUME NEW s \in Senders, SendCall(s) PROVE (ProgramCounters /\ CallsIssued)'
  BY <1>1 DEF SendCall, Mu!RLock
<1>2. ASSUME NEW s \in Senders, Cancel(s) PROVE (ProgramCounters /\ CallsIssued)'
  BY <1>2 DEF Cancel
<1>3. ASSUME NEW s \in Senders, SendRejected(s) PROVE (ProgramCounters /\ CallsIssued)'
  BY <1>3 DEF SendRejected, Mu!RUnlock
<1>4. ASSUME NEW s \in Senders, SendOpen(s) PROVE (ProgramCounters /\ CallsIssued)'
  BY <1>4 DEF SendOpen
<1>5. ASSUME NEW s \in Senders, SendEnqueue(s) PROVE (ProgramCounters /\ CallsIssued)'
  BY <1>5 DEF SendEnqueue, Mu!RUnlock
<1>6. ASSUME NEW s \in Senders, SendCancelled(s) PROVE (ProgramCounters /\ CallsIssued)'
  BY <1>6 DEF SendCancelled, Mu!RUnlock
<1>7. ASSUME NEW t \in Closers \cup Registrars, LockCall(t) PROVE (ProgramCounters /\ CallsIssued)'
  BY <1>7 DEF LockCall
<1>8. ASSUME NEW t \in Closers \cup Registrars, LockAnnounce(t) PROVE (ProgramCounters /\ CallsIssued)'
  BY <1>8 DEF LockAnnounce, Mu!Announce
<1>9. ASSUME NEW c \in Closers, CloseAgain(c) PROVE (ProgramCounters /\ CallsIssued)'
  BY <1>9 DEF CloseAgain, Mu!Unlock, Mu!HoldsWrite
<1>10. ASSUME NEW c \in Closers, CloseFirst(c) PROVE (ProgramCounters /\ CallsIssued)'
  BY <1>10 DEF CloseFirst, Mu!Unlock, Mu!HoldsWrite
<1>11. ASSUME NEW c \in Closers, CloseChannel(c) PROVE (ProgramCounters /\ CallsIssued)'
  BY <1>11 DEF CloseChannel
<1>12. ASSUME NEW c \in Closers, CloseReturn(c) PROVE (ProgramCounters /\ CallsIssued)'
  BY <1>12 DEF CloseReturn
<1>13. ASSUME NEW r \in Registrars, RegisterHandler(r) PROVE (ProgramCounters /\ CallsIssued)'
  BY <1>13 DEF RegisterHandler, Mu!Unlock, Mu!HoldsWrite
<1>14. ASSUME WorkerReceive PROVE (ProgramCounters /\ CallsIssued)'
  BY <1>14 DEF WorkerReceive, Mu!RLock
<1>15. ASSUME WorkerDrop PROVE (ProgramCounters /\ CallsIssued)'
  BY <1>15 DEF WorkerDrop, Mu!RUnlock
<1>16. ASSUME WorkerFetchHandler PROVE (ProgramCounters /\ CallsIssued)'
  BY <1>16 DEF WorkerFetchHandler, Mu!RUnlock
<1>17. ASSUME WorkerHandled PROVE (ProgramCounters /\ CallsIssued)'
  BY <1>17 DEF WorkerHandled
<1>18. ASSUME WorkerExit PROVE (ProgramCounters /\ CallsIssued)'
  BY <1>18 DEF WorkerExit
<1>19. ASSUME UNCHANGED vars PROVE (ProgramCounters /\ CallsIssued)'
  BY <1>19 DEF vars
<1> QED
  BY <1>1, <1>2, <1>3, <1>4, <1>5, <1>6, <1>7, <1>8, <1>9, <1>10,
     <1>11, <1>12, <1>13, <1>14, <1>15, <1>16, <1>17, <1>18, <1>19
     DEF Next, SendStep, CloseStep, RegisterStep, WorkerStep, Quiescent, Stuck

(* A step keeps the lock discipline. *)
LEMMA LockStep == TypeOK /\ ProgramCounters /\ LockDiscipline /\ [Next]_vars => LockDiscipline'
<1> SUFFICES ASSUME TypeOK, ProgramCounters, LockDiscipline, [Next]_vars PROVE LockDiscipline'
  OBVIOUS
<1> USE DEF TypeOK, Mu!MutexTypeOK, ProgramCounters, LockDiscipline, PCs, Threads, Goto, mutex, history
<1>1. ASSUME NEW s \in Senders, SendCall(s) PROVE LockDiscipline'
  BY <1>1 DEF SendCall, Mu!RLock
<1>2. ASSUME NEW s \in Senders, Cancel(s) PROVE LockDiscipline'
  BY <1>2 DEF Cancel
<1>3. ASSUME NEW s \in Senders, SendRejected(s) PROVE LockDiscipline'
  BY <1>3 DEF SendRejected, Mu!RUnlock
<1>4. ASSUME NEW s \in Senders, SendOpen(s) PROVE LockDiscipline'
  BY <1>4 DEF SendOpen
<1>5. ASSUME NEW s \in Senders, SendEnqueue(s) PROVE LockDiscipline'
  BY <1>5 DEF SendEnqueue, Mu!RUnlock
<1>6. ASSUME NEW s \in Senders, SendCancelled(s) PROVE LockDiscipline'
  BY <1>6 DEF SendCancelled, Mu!RUnlock
<1>7. ASSUME NEW t \in Closers \cup Registrars, LockCall(t) PROVE LockDiscipline'
  BY <1>7 DEF LockCall
<1>8. ASSUME NEW t \in Closers \cup Registrars, LockAnnounce(t) PROVE LockDiscipline'
  BY <1>8 DEF LockAnnounce, Mu!Announce
<1>9. ASSUME NEW c \in Closers, CloseAgain(c) PROVE LockDiscipline'
  BY <1>9 DEF CloseAgain, Mu!Unlock, Mu!HoldsWrite
<1>10. ASSUME NEW c \in Closers, CloseFirst(c) PROVE LockDiscipline'
  BY <1>10 DEF CloseFirst, Mu!Unlock, Mu!HoldsWrite
<1>11. ASSUME NEW c \in Closers, CloseChannel(c) PROVE LockDiscipline'
  BY <1>11 DEF CloseChannel
<1>12. ASSUME NEW c \in Closers, CloseReturn(c) PROVE LockDiscipline'
  BY <1>12 DEF CloseReturn
<1>13. ASSUME NEW r \in Registrars, RegisterHandler(r) PROVE LockDiscipline'
  BY <1>13 DEF RegisterHandler, Mu!Unlock, Mu!HoldsWrite
<1>14. ASSUME WorkerReceive PROVE LockDiscipline'
  BY <1>14 DEF WorkerReceive, Mu!RLock
<1>15. ASSUME WorkerDrop PROVE LockDiscipline'
  BY <1>15 DEF WorkerDrop, Mu!RUnlock
<1>16. ASSUME WorkerFetchHandler PROVE LockDiscipline'
  BY <1>16 DEF WorkerFetchHandler, Mu!RUnlock
<1>17. ASSUME WorkerHandled PROVE LockDiscipline'
  BY <1>17 DEF WorkerHandled
<1>18. ASSUME WorkerExit PROVE LockDiscipline'
  BY <1>18 DEF WorkerExit
<1>19. ASSUME UNCHANGED vars PROVE LockDiscipline'
  BY <1>19 DEF vars
<1> QED
  BY <1>1, <1>2, <1>3, <1>4, <1>5, <1>6, <1>7, <1>8, <1>9, <1>10,
     <1>11, <1>12, <1>13, <1>14, <1>15, <1>16, <1>17, <1>18, <1>19
     DEF Next, SendStep, CloseStep, RegisterStep, WorkerStep, Quiescent, Stuck

(* A step keeps the order of closing: the write lock is granted only when no
   sender is in its select. *)
LEMMA CloseStepInv == TypeOK /\ ProgramCounters /\ LockDiscipline /\ CloseProtocol /\ [Next]_vars => CloseProtocol'
<1> SUFFICES ASSUME TypeOK, ProgramCounters, LockDiscipline, CloseProtocol, [Next]_vars PROVE CloseProtocol'
  OBVIOUS
<1> USE DEF TypeOK, ProgramCounters, LockDiscipline, CloseProtocol, PCs, Threads, Goto, mutex, history
<1>1. ASSUME NEW s \in Senders, SendCall(s) PROVE CloseProtocol'
  BY <1>1 DEF SendCall, Mu!RLock
<1>2. ASSUME NEW s \in Senders, Cancel(s) PROVE CloseProtocol'
  BY <1>2 DEF Cancel
<1>3. ASSUME NEW s \in Senders, SendRejected(s) PROVE CloseProtocol'
  BY <1>3 DEF SendRejected, Mu!RUnlock
<1>4. ASSUME NEW s \in Senders, SendOpen(s) PROVE CloseProtocol'
  BY <1>4 DEF SendOpen
<1>5. ASSUME NEW s \in Senders, SendEnqueue(s) PROVE CloseProtocol'
  BY <1>5 DEF SendEnqueue, Mu!RUnlock
<1>6. ASSUME NEW s \in Senders, SendCancelled(s) PROVE CloseProtocol'
  BY <1>6 DEF SendCancelled, Mu!RUnlock
<1>7. ASSUME NEW t \in Closers \cup Registrars, LockCall(t) PROVE CloseProtocol'
  BY <1>7 DEF LockCall
<1>8. ASSUME NEW t \in Closers \cup Registrars, LockAnnounce(t) PROVE CloseProtocol'
  BY <1>8 DEF LockAnnounce, Mu!Announce
<1>9. ASSUME NEW c \in Closers, CloseAgain(c) PROVE CloseProtocol'
  BY <1>9 DEF CloseAgain, Mu!Unlock, Mu!HoldsWrite
<1>10. ASSUME NEW c \in Closers, CloseFirst(c) PROVE CloseProtocol'
  BY <1>10 DEF CloseFirst, Mu!Unlock, Mu!HoldsWrite
<1>11. ASSUME NEW c \in Closers, CloseChannel(c) PROVE CloseProtocol'
  BY <1>11 DEF CloseChannel
<1>12. ASSUME NEW c \in Closers, CloseReturn(c) PROVE CloseProtocol'
  BY <1>12 DEF CloseReturn
<1>13. ASSUME NEW r \in Registrars, RegisterHandler(r) PROVE CloseProtocol'
  BY <1>13 DEF RegisterHandler, Mu!Unlock, Mu!HoldsWrite
<1>14. ASSUME WorkerReceive PROVE CloseProtocol'
  BY <1>14 DEF WorkerReceive, Mu!RLock
<1>15. ASSUME WorkerDrop PROVE CloseProtocol'
  BY <1>15 DEF WorkerDrop, Mu!RUnlock
<1>16. ASSUME WorkerFetchHandler PROVE CloseProtocol'
  BY <1>16 DEF WorkerFetchHandler, Mu!RUnlock
<1>17. ASSUME WorkerHandled PROVE CloseProtocol'
  BY <1>17 DEF WorkerHandled
<1>18. ASSUME WorkerExit PROVE CloseProtocol'
  BY <1>18 DEF WorkerExit
<1>19. ASSUME UNCHANGED vars PROVE CloseProtocol'
  BY <1>19 DEF vars
<1> QED
  BY <1>1, <1>2, <1>3, <1>4, <1>5, <1>6, <1>7, <1>8, <1>9, <1>10,
     <1>11, <1>12, <1>13, <1>14, <1>15, <1>16, <1>17, <1>18, <1>19
     DEF Next, SendStep, CloseStep, RegisterStep, WorkerStep, Quiescent, Stuck

(* Moving the head of the right part to the end of the left part changes
   nothing in the whole. *)
LEMMA MoveHead ==
  ASSUME NEW S, NEW r \in Seq(S), NEW q \in Seq(S), q # <<>>
  PROVE  r \o q = Append(r, Head(q)) \o Tail(q)
<1>1. /\ Head(q) \in S /\ Tail(q) \in Seq(S) /\ <<Head(q)>> \in Seq(S)
  BY HeadTailProperties
<1>2. q = <<Head(q)>> \o Tail(q)
  BY <1>1, HeadTailProperties
<1>3. Append(r, Head(q)) = r \o <<Head(q)>>
  BY <1>1, AppendIsConcat
<1> QED
  BY <1>1, <1>2, <1>3, ConcatAssociative

(* A step keeps the order and the number of the messages: only Send appends to
   the channel and only the worker takes from its head. *)
LEMMA ConservedStep == TypeOK /\ CallsIssued /\ Conserved /\ [Next]_vars => Conserved'
<1> SUFFICES ASSUME TypeOK, CallsIssued, Conserved, [Next]_vars PROVE Conserved'
  OBVIOUS
<1> USE DEF Conserved, mutex, history
<1>1. ASSUME NEW s \in Senders, SendCall(s) PROVE Conserved'
  BY <1>1 DEF SendCall, Mu!RLock
<1>2. ASSUME NEW s \in Senders, Cancel(s) PROVE Conserved'
  BY <1>2 DEF Cancel
<1>3. ASSUME NEW s \in Senders, SendRejected(s) PROVE Conserved'
  BY <1>3 DEF SendRejected, Mu!RUnlock
<1>4. ASSUME NEW s \in Senders, SendOpen(s) PROVE Conserved'
  BY <1>4 DEF SendOpen
<1>5. ASSUME NEW s \in Senders, SendEnqueue(s) PROVE Conserved'
  <2> DEFINE msg == <<s, issued[s]>>
  <2>1. /\ chan' = Append(chan, msg) /\ sent' = Append(sent, msg)
        /\ received' = received
    BY <1>5 DEF SendEnqueue
  <2>2. msg \in Messages
    <3>1. issued[s] \in 1..MaxSends
      BY <1>5 DEF SendEnqueue, CallsIssued, Goto
    <3> QED
      BY <3>1 DEF Messages
  <2>3. received \in Seq(Messages) /\ chan \in Seq(Messages)
    BY DEF TypeOK
  <2> HIDE DEF msg
  <2>4. Append(received \o chan, msg) = received \o Append(chan, msg)
    <3>1. <<msg>> \in Seq(Messages) /\ received \o chan \in Seq(Messages)
      BY <2>2, <2>3
    <3>2. /\ Append(received \o chan, msg) = (received \o chan) \o <<msg>>
          /\ Append(chan, msg) = chan \o <<msg>>
      BY <2>2, <2>3, <3>1, AppendIsConcat
    <3> QED
      BY <2>3, <3>1, <3>2, ConcatAssociative
  <2> QED
    BY <2>1, <2>2, <2>4
<1>6. ASSUME NEW s \in Senders, SendCancelled(s) PROVE Conserved'
  BY <1>6 DEF SendCancelled, Mu!RUnlock
<1>7. ASSUME NEW t \in Closers \cup Registrars, LockCall(t) PROVE Conserved'
  BY <1>7 DEF LockCall
<1>8. ASSUME NEW t \in Closers \cup Registrars, LockAnnounce(t) PROVE Conserved'
  BY <1>8 DEF LockAnnounce, Mu!Announce
<1>9. ASSUME NEW c \in Closers, CloseAgain(c) PROVE Conserved'
  BY <1>9 DEF CloseAgain, Mu!Unlock, Mu!HoldsWrite
<1>10. ASSUME NEW c \in Closers, CloseFirst(c) PROVE Conserved'
  BY <1>10 DEF CloseFirst, Mu!Unlock, Mu!HoldsWrite
<1>11. ASSUME NEW c \in Closers, CloseChannel(c) PROVE Conserved'
  BY <1>11 DEF CloseChannel
<1>12. ASSUME NEW c \in Closers, CloseReturn(c) PROVE Conserved'
  BY <1>12 DEF CloseReturn
<1>13. ASSUME NEW r \in Registrars, RegisterHandler(r) PROVE Conserved'
  BY <1>13 DEF RegisterHandler, Mu!Unlock, Mu!HoldsWrite
<1>14. ASSUME WorkerReceive PROVE Conserved'
  <2>1. /\ chan' = Tail(chan) /\ received' = Append(received, Head(chan))
        /\ sent' = sent /\ chan # <<>>
    BY <1>14 DEF WorkerReceive
  <2> QED
    BY <2>1, MoveHead DEF TypeOK
<1>15. ASSUME WorkerDrop PROVE Conserved'
  BY <1>15 DEF WorkerDrop, Mu!RUnlock
<1>16. ASSUME WorkerFetchHandler PROVE Conserved'
  BY <1>16 DEF WorkerFetchHandler, Mu!RUnlock
<1>17. ASSUME WorkerHandled PROVE Conserved'
  BY <1>17 DEF WorkerHandled
<1>18. ASSUME WorkerExit PROVE Conserved'
  BY <1>18 DEF WorkerExit
<1>19. ASSUME UNCHANGED vars PROVE Conserved'
  BY <1>19 DEF vars
<1> QED
  BY <1>1, <1>2, <1>3, <1>4, <1>5, <1>6, <1>7, <1>8, <1>9, <1>10,
     <1>11, <1>12, <1>13, <1>14, <1>15, <1>16, <1>17, <1>18, <1>19
     DEF Next, SendStep, CloseStep, RegisterStep, WorkerStep, Quiescent, Stuck

FinishedFacts ==
  /\ Finished \in Seq(Messages)
  /\ pc[Worker] \in {"read", "handle"} =>
       received = Append(Finished, received[Len(received)])
  /\ pc[Worker] \notin {"read", "handle"} => Finished = received
  /\ Len(Finished) = IF pc[Worker] \in {"read", "handle"}
                       THEN Len(received) - 1 ELSE Len(received)

(* What has been finished is what was received, without the message the worker
   is at. *)
LEMMA FinishedProperties == TypeOK /\ DropHistory => FinishedFacts
<1> SUFFICES ASSUME TypeOK, DropHistory PROVE FinishedFacts
  OBVIOUS
<1> USE DEF FinishedFacts
<1> DEFINE n == Len(received)
<1>1. CASE pc[Worker] \notin {"read", "handle"}
  BY <1>1 DEF Finished, TypeOK
<1>2. CASE pc[Worker] \in {"read", "handle"}
  <2>1. n \in Nat \ {0} /\ received \in Seq(Messages)
    BY <1>2 DEF DropHistory, TypeOK
  <2>2. \A i \in 1..n : received[i] \in Messages
    BY <2>1, ElementOfSeq
  <2>3. Finished = SubSeq(received, 1, n - 1)
    BY <1>2 DEF Finished
  <2>4. /\ Finished \in Seq(Messages) /\ Len(Finished) = n - 1
        /\ \A i \in 1..n - 1 : Finished[i] = received[i]
    <3> HIDE DEF n
    <3>1. n - 1 \in Int /\ 1..n - 1 \subseteq 1..n
      BY <2>1
    <3>2. /\ SubSeq(received, 1, n - 1) \in Seq(Messages)
          /\ Len(SubSeq(received, 1, n - 1)) = IF 1 <= n - 1 THEN (n - 1) - 1 + 1 ELSE 0
          /\ \A i \in 1..(n - 1) - 1 + 1 : SubSeq(received, 1, n - 1)[i] = received[1 + i - 1]
      BY <2>2, <3>1, SubSeqProperties
    <3> QED
      BY <2>1, <2>3, <3>1, <3>2
  <2>5. received = Append(Finished, received[n])
    <3>1. received[n] \in Messages
      BY <2>1, <2>2
    <3>2. /\ Append(Finished, received[n]) \in Seq(Messages)
          /\ Len(Append(Finished, received[n])) = n
          /\ \A i \in 1..n - 1 : Append(Finished, received[n])[i] = Finished[i]
          /\ Append(Finished, received[n])[n] = received[n]
      BY <2>1, <2>4, <3>1, AppendProperties
    <3>3. \A i \in 1..n : received[i] = Append(Finished, received[n])[i]
      BY <2>1, <2>4, <3>2
    <3> HIDE DEF n
    <3> QED
      BY <2>1, <3>2, <3>3, SeqEqual DEF n
  <2> QED
    BY <1>2, <2>4, <2>5
<1> QED
  BY <1>1, <1>2

(* The same in the next state. *)
LEMMA FinishedPrimed == TypeOK' /\ DropHistory' => FinishedFacts'
  BY FinishedProperties, PTL

(* A step keeps the numbers of the accepted messages below the number of calls
   their senders have begun. *)
LEMMA IssuedStep == TypeOK /\ CallsIssued /\ SentIssued /\ [Next]_vars => SentIssued'
<1> SUFFICES ASSUME TypeOK, CallsIssued, SentIssued, [Next]_vars PROVE SentIssued'
  OBVIOUS
<1>0. \A i \in DOMAIN sent : sent[i][1] \in Senders /\ sent[i][2] \in Nat
  BY DEF TypeOK, Messages
<1>1. ASSUME NEW s \in Senders, SendCall(s) PROVE SentIssued'
  <2>1. /\ sent' = sent
        /\ \A r \in Senders : issued[r] \in Nat /\ issued'[r] \in Nat /\ issued[r] <= issued'[r]
    BY <1>1 DEF SendCall, history, TypeOK
  <2> QED
    BY <1>0, <2>1 DEF SentIssued
<1>2. ASSUME NEW s \in Senders, SendEnqueue(s) PROVE SentIssued'
  <2> DEFINE msg == <<s, issued[s]>>
             n == Len(sent)
  <2>1. sent' = Append(sent, msg) /\ issued' = issued /\ issued[s] \in 1..MaxSends
    BY <1>2 DEF SendEnqueue, CallsIssued, Goto
  <2>2. msg \in Messages /\ sent \in Seq(Messages) /\ n \in Nat /\ DOMAIN sent = 1..n
    BY <2>1 DEF Messages, TypeOK
  <2>3. /\ DOMAIN sent' = 1..n + 1
        /\ sent'[n + 1] = msg
        /\ \A i \in 1..n : sent'[i] = sent[i]
    BY <2>1, <2>2
  <2>4. msg[1] = s /\ msg[2] = issued[s]
    OBVIOUS
  <2> HIDE DEF msg, n
  <2>5. ASSUME NEW i \in 1..n + 1 PROVE sent'[i][2] <= issued'[sent'[i][1]]
    <3>1. CASE i = n + 1
      BY <2>1, <2>3, <2>4, <3>1
    <3>2. CASE i \in 1..n
      BY <2>1, <2>2, <2>3, <3>2 DEF SentIssued
    <3> QED
      BY <2>2, <3>1, <3>2
  <2> QED
    BY <2>3, <2>5 DEF SentIssued
<1>3. CASE UNCHANGED <<sent, issued>>
  BY <1>3 DEF SentIssued
<1> QED
  BY <1>1, <1>2, <1>3
     DEF Next, SendStep, CloseStep, RegisterStep, WorkerStep, Quiescent, Stuck, history, vars,
         Cancel, SendRejected, SendOpen, SendCancelled, LockCall, LockAnnounce,
         RegisterHandler, CloseAgain, CloseFirst, CloseChannel, CloseReturn, WorkerReceive,
         WorkerDrop, WorkerFetchHandler, WorkerHandled, WorkerExit

(* A received message was issued before. *)
LEMMA ReceivedIssued ==
  ASSUME TypeOK, Conserved, SentIssued, NEW i \in 1..Len(received)
  PROVE  /\ received[i][1] \in Senders
         /\ received[i][2] <= issued[received[i][1]]
<1>1. received \in Seq(Messages) /\ chan \in Seq(Messages) /\ Len(received) \in Nat
  BY DEF TypeOK
<1>2. sent[i] = received[i] /\ i \in 1..Len(sent)
  BY <1>1, ConcatProperties DEF Conserved
<1>3. received[i] \in Messages /\ DOMAIN sent = 1..Len(sent)
  BY <1>1 DEF TypeOK
<1> QED
  BY <1>2, <1>3 DEF SentIssued, Messages

(* A step that leaves the worker, its history and the handler alone keeps the
   drop history. *)
LEMMA DropUnchanged ==
  ASSUME DropHistory, UNCHANGED <<received, dropped, early, handlerSet, pc[Worker]>>
  PROVE  DropHistory'
BY DEF DropHistory, HandledOnceRegistered

(* A step keeps what is known of the dropped messages: when the handler is
   registered every message received so far was issued before, and later only a
   message that finds no handler is dropped. *)
LEMMA DropStep ==
  TypeOK /\ ProgramCounters /\ Conserved /\ SentIssued /\ DropHistory /\ [Next]_vars => DropHistory'
<1> SUFFICES ASSUME TypeOK, ProgramCounters, Conserved, SentIssued, DropHistory, [Next]_vars
             PROVE  DropHistory'
  OBVIOUS
<1> DEFINE n == Len(received)
<1>0. n \in Nat
  BY DEF TypeOK
<1>1. ASSUME NEW s \in Senders, SendCall(s) \/ Cancel(s) \/ SendStep(s) PROVE DropHistory'
  <2>1. UNCHANGED <<received, dropped, early, handlerSet, pc[Worker]>>
    BY <1>1 DEF SendCall, Cancel, SendStep, SendRejected, SendOpen, SendEnqueue,
                SendCancelled, Goto, history, TypeOK, Threads
  <2> QED
    BY <2>1, DropUnchanged
<1>2. ASSUME NEW t \in Closers \cup Registrars, LockCall(t) \/ LockAnnounce(t)
      PROVE  DropHistory'
  <2>1. UNCHANGED <<received, dropped, early, handlerSet, pc[Worker]>>
    BY <1>2 DEF LockCall, LockAnnounce, Goto, history, TypeOK, Threads
  <2> QED
    BY <2>1, DropUnchanged
<1>3. ASSUME NEW c \in Closers,
             CloseAgain(c) \/ CloseFirst(c) \/ CloseChannel(c) \/ CloseReturn(c)
      PROVE  DropHistory'
  <2>1. UNCHANGED <<received, dropped, early, handlerSet, pc[Worker]>>
    BY <1>3 DEF CloseAgain, CloseFirst, CloseChannel, CloseReturn, Goto, history,
                TypeOK, Threads
  <2> QED
    BY <2>1, DropUnchanged
<1>4. ASSUME NEW r \in Registrars, RegisterHandler(r) PROVE DropHistory'
  <2>1. /\ UNCHANGED <<received, dropped, pc[Worker]>>
        /\ early' = IF handlerSet THEN early ELSE issued
    BY <1>4 DEF RegisterHandler, Goto, TypeOK, Threads
  <2>2. \A i \in dropped : received[i][2] <= early'[received[i][1]]
    BY <2>1, ReceivedIssued DEF DropHistory, HandledOnceRegistered
  <2> QED
    BY <2>1, <2>2 DEF DropHistory, HandledOnceRegistered
<1>5. CASE WorkerReceive
  <2>1. /\ received' = Append(received, Head(chan)) /\ chan # <<>>
        /\ UNCHANGED <<dropped, early, handlerSet>>
    BY <1>5 DEF WorkerReceive
  <2>2. Head(chan) \in Messages /\ received \in Seq(Messages)
    BY <2>1 DEF TypeOK
  <2>3. Len(received') = n + 1 /\ \A i \in 1..n : received'[i] = received[i]
    BY <2>1, <2>2, AppendProperties
  <2>4. dropped' \subseteq 1..n /\ 1..n \subseteq 1..n + 1
    BY <1>0, <2>1 DEF DropHistory
  <2> HIDE DEF n
  <2> QED
    BY <1>0, <2>1, <2>3, <2>4 DEF DropHistory, HandledOnceRegistered
<1>6. CASE WorkerDrop
  <2>1. /\ ~handlerSet /\ UNCHANGED <<received, handlerSet>>
        /\ pc[Worker] = "read" /\ pc'[Worker] = "recv"
        /\ dropped' = dropped \cup {n}
    BY <1>6 DEF WorkerDrop, Goto, TypeOK, Threads
  <2>2. n \in 1..n
    BY <1>0, <2>1 DEF DropHistory
  <2> QED
    BY <2>1, <2>2 DEF DropHistory, HandledOnceRegistered
<1>7. CASE WorkerFetchHandler \/ WorkerHandled \/ WorkerExit
  <2>1. /\ UNCHANGED <<received, dropped, early, handlerSet>>
        /\ pc'[Worker] \in {"read", "handle"} => pc[Worker] \in {"read", "handle"}
    BY <1>7 DEF WorkerFetchHandler, WorkerHandled, WorkerExit, Goto, history, TypeOK, Threads
  <2> QED
    BY <2>1 DEF DropHistory, HandledOnceRegistered
<1>8. CASE UNCHANGED vars
  BY <1>8, DropUnchanged DEF vars, history
<1> QED
  BY <1>1, <1>2, <1>3, <1>4, <1>5, <1>6, <1>7, <1>8
     DEF Next, CloseStep, RegisterStep, WorkerStep, Quiescent, Stuck

(* A step keeps every part of the invariant. *)
LEMMA InvStep == Inv /\ [Next]_vars => Inv'
<1> SUFFICES ASSUME Inv, [Next]_vars PROVE Inv'
  OBVIOUS
<1> USE DEF Inv
<1>1. TypeOK'
  BY TypeStep
<1>2. ProgramCounters' /\ CallsIssued'
  BY ControlStep
<1>3. LockDiscipline'
  BY LockStep
<1>4. CloseProtocol'
  BY CloseStepInv
<1>5. Conserved'
  BY ConservedStep
<1>6. SentIssued'
  BY IssuedStep
<1>7. DropHistory'
  BY DropStep
<1> QED
  BY <1>1, <1>2, <1>3, <1>4, <1>5, <1>6, <1>7

(* The invariant of the queue holds in every reachable state, and with it its
   type correctness. *)
THEOREM InvHolds == Safety => []Inv
<1>1. Init => Inv
  BY InitInv
<1>2. Inv /\ [Next]_vars => Inv'
  BY InvStep
<1> QED
  BY <1>1, <1>2, PTL DEF Safety

(* However many goroutines send and close, nobody sends on the closed channel
   and nobody closes it again: neither Send nor Close panics. *)
THEOREM NeverPanics == Safety => []NoPanic
<1>1. Inv => NoPanic
  BY DEF Inv, CloseProtocol, NoPanic
<1> QED
  BY <1>1, InvHolds, PTL

(* What Send accepted reaches the worker once and in the order of acceptance. *)
THEOREM MessagesConserved == Safety => []Conserved
<1>1. Inv => Conserved
  BY DEF Inv
<1> QED
  BY <1>1, InvHolds, PTL

(* When the worker is gone nothing is left in the channel and nobody is about
   to put anything there. *)
THEOREM WorkerDrains == Safety => []DrainedOnExit
<1>1. Inv => DrainedOnExit
  BY DEF Inv, CloseProtocol, DrainedOnExit
<1> QED
  BY <1>1, InvHolds, PTL

(* A message whose Send began after the first RegisterHandler took effect is never
   dropped for want of a handler, whatever the worker was doing meanwhile. *)
THEOREM LaterMessagesHandled == Safety => []HandledOnceRegistered
<1>1. Inv => HandledOnceRegistered
  BY DEF Inv, DropHistory
<1> QED
  BY <1>1, InvHolds, PTL

-----------------------------------------------------------------------------
(* Every step of the queue is a step of AsyncQueue or leaves it where it is. *)
LEMMA StepSimulation ==
  Inv /\ Inv' /\ [Next]_vars => [Promise!AbsNext]_<<sent, Finished, ~closed, pc[Worker] = "exited">>
<1> SUFFICES ASSUME Inv, Inv', [Next]_vars
             PROVE  \/ Promise!AbsNext
                    \/ UNCHANGED <<sent, Finished, closed, pc[Worker] = "exited">>
  BY DEF Inv, TypeOK
<1> USE DEF Inv
<1> DEFINE Stutter == UNCHANGED <<sent, Finished, closed, pc[Worker] = "exited">>
<1>1. ASSUME NEW s \in Senders,
             SendCall(s) \/ Cancel(s) \/ SendRejected(s) \/ SendOpen(s) \/ SendCancelled(s)
      PROVE  Stutter
  BY <1>1 DEF SendCall, Cancel, SendRejected, SendOpen, SendCancelled, Goto, history,
              Finished, TypeOK, Threads
<1>2. ASSUME NEW s \in Senders, SendEnqueue(s) PROVE Promise!AbsNext
  <2> DEFINE msg == <<s, issued[s]>>
  <2>1. msg \in Messages
    <3>1. issued[s] \in 1..MaxSends
      BY <1>2 DEF SendEnqueue, CallsIssued, Goto
    <3> QED
      BY <3>1 DEF Messages
  <2>2. sent' = Append(sent, msg) /\ ~closed /\ UNCHANGED <<received, closed, pc[Worker]>>
    BY <1>2 DEF SendEnqueue, Goto, CloseProtocol, TypeOK, Threads
  <2>3. UNCHANGED Finished
    BY <2>2 DEF Finished
  <2>4. Promise!Accept(msg)
    BY <2>2, <2>3 DEF Promise!Accept
  <2> QED
    BY <2>1, <2>4 DEF Promise!AbsNext
<1>3. ASSUME NEW t \in Closers \cup Registrars, LockCall(t) \/ LockAnnounce(t)
      PROVE  Stutter
  BY <1>3 DEF LockCall, LockAnnounce, Goto, history, Finished, TypeOK, Threads
<1>4. ASSUME NEW c \in Closers, CloseAgain(c) \/ CloseChannel(c) \/ CloseReturn(c)
      PROVE  Stutter
  BY <1>4 DEF CloseAgain, CloseChannel, CloseReturn, Goto, history, Finished, TypeOK, Threads
<1>5. ASSUME NEW c \in Closers, CloseFirst(c) PROVE Promise!AbsNext
  <2>1. ~closed /\ closed' /\ UNCHANGED <<sent, received, pc[Worker]>>
    BY <1>5 DEF CloseFirst, Goto, history, TypeOK, Threads
  <2>2. UNCHANGED Finished
    BY <2>1 DEF Finished
  <2>3. Promise!Shut
    BY <2>1, <2>2 DEF Promise!Shut
  <2> QED
    BY <2>3 DEF Promise!AbsNext
<1>6. ASSUME NEW r \in Registrars, RegisterHandler(r) PROVE Stutter
  BY <1>6 DEF RegisterHandler, Goto, history, Finished, TypeOK, Threads
<1>7. CASE WorkerReceive
  <2>1. /\ received' = Append(received, Head(chan)) /\ chan # <<>>
        /\ pc[Worker] = "recv" /\ pc'[Worker] = "read" /\ UNCHANGED <<sent, closed>>
    BY <1>7 DEF WorkerReceive, Goto, TypeOK, Threads
  <2>2. Head(chan) \in Messages
    BY <2>1 DEF TypeOK
  <2>3. Finished = received /\ Finished' \in Seq(Messages)
    BY <2>1, FinishedProperties, FinishedPrimed DEF Finished, FinishedFacts
  <2>4. Append(received, Head(chan)) = Append(Finished', Head(chan))
    <3>1. /\ received' = Append(Finished', received'[Len(received')])
      BY <2>1, FinishedPrimed DEF FinishedFacts
    <3>2. received'[Len(received')] = Head(chan)
      BY <2>1, <2>2, AppendProperties DEF TypeOK
    <3> QED
      BY <2>1, <3>1, <3>2
  <2>5. Finished' = received
    <3> DEFINE h == Head(chan)
               f == Finished'
    <3>1. h \in Messages /\ f \in Seq(Messages) /\ received \in Seq(Messages)
      BY <2>2, <2>3 DEF TypeOK
    <3>2. Append(received, h) = Append(f, h)
      BY <2>4
    <3> HIDE DEF h, f
    <3>3. /\ Len(Append(received, h)) = Len(received) + 1
          /\ \A i \in 1..Len(received) : Append(received, h)[i] = received[i]
          /\ Len(Append(f, h)) = Len(f) + 1
          /\ \A i \in 1..Len(f) : Append(f, h)[i] = f[i]
      BY <3>1, AppendProperties
    <3>4. Len(f) = Len(received) /\ \A i \in 1..Len(f) : f[i] = received[i]
      BY <3>1, <3>2, <3>3
    <3>5. f = received
      BY <3>1, <3>4, SeqEqual
    <3> QED
      BY <3>5 DEF f
  <2> QED
    BY <2>1, <2>3, <2>5
<1>8. CASE WorkerDrop \/ WorkerHandled
  <2>1. /\ pc[Worker] \in {"read", "handle"} /\ pc'[Worker] = "recv"
        /\ UNCHANGED <<sent, received, chan, closed>>
    BY <1>8 DEF WorkerDrop, WorkerHandled, Goto, history, TypeOK, Threads
  <2>2. /\ received = Append(Finished, received[Len(received)])
        /\ Len(Finished) = Len(received) - 1 /\ Finished' = received
    BY <2>1, FinishedProperties DEF Finished, FinishedFacts
  <2>3. Len(received) \in Nat \ {0}
    BY <2>1 DEF DropHistory
  <2>4. /\ Len(sent) = Len(received) + Len(chan)
        /\ sent[Len(received)] = received[Len(received)]
    BY <2>3, ConcatProperties DEF TypeOK, Conserved
  <2>5. Len(Finished) < Len(sent) /\ sent[Len(Finished) + 1] = received[Len(received)]
    BY <2>2, <2>3, <2>4 DEF TypeOK
  <2>6. Promise!Finish
    BY <2>1, <2>2, <2>5 DEF Promise!Finish
  <2> QED
    BY <2>6 DEF Promise!AbsNext
<1>9. CASE WorkerFetchHandler
  BY <1>9 DEF WorkerFetchHandler, Goto, history, Finished, TypeOK, Threads
<1>10. CASE WorkerExit
  <2>1. /\ chan = <<>> /\ chanClosed /\ pc[Worker] = "recv" /\ pc'[Worker] = "exited"
        /\ UNCHANGED <<sent, received, closed>>
    BY <1>10 DEF WorkerExit, Goto, history, TypeOK, Threads
  <2>2. closed /\ Finished = received /\ Finished' = received
    BY <2>1 DEF CloseProtocol, Finished
  <2>3. received = sent
    BY <2>1, ConcatEmptySeq DEF Conserved, TypeOK
  <2>4. Promise!Stop
    BY <2>1, <2>2, <2>3 DEF Promise!Stop
  <2> QED
    BY <2>4 DEF Promise!AbsNext
<1>11. CASE UNCHANGED vars
  BY <1>11 DEF vars, history, Finished
<1> QED
  BY <1>1, <1>2, <1>3, <1>4, <1>5, <1>6, <1>7, <1>8, <1>9, <1>10, <1>11
     DEF Next, SendStep, CloseStep, RegisterStep, WorkerStep, Quiescent, Stuck

(* Whatever the interleaving, the queue does only what Service[T] promises:
   messages are finished in the order of acceptance, nothing is accepted after
   Close, and the worker stops only when everything accepted is finished. *)
THEOREM QueueKeepsPromise == Safety => Promise!AbsSafety
<1>1. Init => Promise!AbsInit
  BY DEF Init, Promise!AbsInit, Finished, Threads
<1>2. Inv /\ Inv' /\ [Next]_vars => [Promise!AbsNext]_(Promise!absVars)
  BY StepSimulation DEF Promise!absVars
<1> QED
  BY <1>1, <1>2, InvHolds, PTL DEF Safety, Promise!AbsSafety
=============================================================================
