# Verification of the anonymous community

TLA+ specifications of the core of this repository, a fork of Apache Answer 2.0
that adds WeCom (企业微信) login and an identity vault for anonymous posting. TLC
checks small instances of every specification; the theorems marked as such are
proved with TLAPS for every value of the constants. `PROJECT.json` lists, for every
definition that stands for code, the lines it stands for.

## 1. The system

The server (`internal/`, about 66 000 lines of Go) is one process: gin handlers,
services, repositories over xorm (MySQL, PostgreSQL or SQLite), a cache of
key/value pairs with expiry, goroutines that work off in-process queues, and
plugins. A second process (`internal/vaultapp`) keeps the mapping from WeCom
members to anonymous subjects.

| Component | State it keeps | Operations | What is hard |
|---|---|---|---|
| In-process queues (`base/queue`, instantiated by `activityqueue`, `eventqueue`, `noticequeue` twice) | a channel of 128 messages, `closed`, `handler`, a `RWMutex`, one worker | `Send`, `RegisterHandler`, `Close`, the worker | goroutines that block with a lock held; closing a channel others send on; messages before a handler |
| Votes and reputation (`vote_service`, `vote_repo`, `user_rank_repo`) | rows of `activity` (cancelled, rank), `user.rank`, `vote_count` | `VoteUp`, `VoteDown`, each cancelling the opposite vote | reads before a transaction and writes inside it, row locks, upserts without a unique key, a daily limit, counters outside any transaction |
| Sessions and accounts (`service/auth`, `repo/auth`, `middleware/auth.go`, logins, `user_backyard`) | the user's row; per token an entry, an administrator entry and a visit entry; per user a status entry and a mapping of tokens, all in the cache | logins by password, WeCom, mail link, changed mail; authorised requests; logout; change of password, role, status | six kinds of keys changed one at a time by any number of requests; a copy of the account in every entry; write-back on read |
| Identity (`wecom`, `vaultapp`, `user_external_login`, anonymous profiles) | mapping rows of the vault, external logins, users, anonymous profiles | the login callback, member events, status, lookup, reveal | two databases and an HTTP call between them, nothing of it transactional; events without retry |
| Answers and their acceptance (`answer_service`, `repo/answer`, `repo/activity/answer_repo.go`) | status of each answer, `adopted`, `accepted_answer_id`, `answer_count`, activity rows and ranks | insert, remove, recover, review, accept | three columns and two transactions of one acceptance; a count that is read and then written |
| Questions and tags (`question_service`, `tag_common`, `repo/tag`) | status, pin, show, relations to tags, `question_count` | add, edit, review, remove, recover, close, pin, hide | two columns written as one was read; relations and counts beside the question |
| Review and revision (`review_service`, `revision_service`, `repo/activity/review_repo.go`) | reviews, revisions, reputation of an edit | edit, suggest, approve, reject | the content changes before the verdict is recorded; two reviewers at a time |
| Notifications (`notification_common`, `notification`) | notification rows, cached red dots, alerts of badges | the handler of the queue, read, clear | the handler sends to its own queue; a sum that is read late; read-modify-write of a cached counter |
| Account mail links (`repo/export/email_repo.go`, `user_service`) | cached codes, the latest code of each user, address and status of the account | register, activate, reset the password, change the address, unsubscribe | codes saved by goroutines in any order; several links of one user at once |
| Files (`uploader`, `file_record`, the job of `cron`) | files on disk, their records, references from revisions and avatars | upload, change of avatar, clean-up, purge | disk and table change one after the other; crashes; a page that shifts while it is worked off |
| Plugin storage (`plugin/kv_storage.go`) | rows of `plugin_kv_storage` behind a cache | `Get`, `Set`, `Del`, `Tx` | a cache that is filled and emptied beside the rows |
| Follows (`follow_service`, `follow_repo`, `MigrateFollowers`) | activity rows, `follow_count` | follow, leave, change all, merge of two tags | rows without a unique key; a counter that an edit of the tag writes back |
| Badges (`service/badge`, `repo/badge`, `repo/badge_award`) | awards, `award_count`, status of the badge | award by the worker of the event queue, switch off and on | a check that looks only at what is not hidden; count and write in two statements |
| Site settings and upgrades (`migrations`, `siteinfo`, `repo/site_info`, the cache of `base/data`) | rows of `site_info`, the version, the cache and its file | `Migrate`, save a page of settings, read one | an upgrade that ends anywhere and runs again, perhaps after the server ran; rows that are split and stripped; a cache that is saved later than it is flushed |
| Comments, reports, captcha, search, AI, importer, configuration, installation, routing, templates | see `PROJECT.json` | | mostly declarations, I/O, thin layers or start-up code of one process |

How the components interact: a request passes the middleware (Sessions), calls a
service, which calls repositories inside or outside transactions (Votes) and sends
messages to the queues (Queue), whose handlers write notifications (Notices),
activities and badge awards (Badges). Votes, acceptances, follows and accepted
edits share the table `activity`, each with its own types of rows, so that each of
their modules has rows of its own. An edit leaves a revision (Revisions), which
keeps the files it refers to (Uploads) and whose tags become relations
(Questions). The WeCom callback calls the vault by HTTP (Identity), registers the
user and logs it in (Sessions).

What must be right, component by component:

* **Queues** never panic, never lose, repeat or reorder what they accepted, drain
  before they stop, and every call returns.
* **Votes**: ranks never fall below 1 and are the sum of what the live rows are
  worth, rows are not duplicated, both sides of a vote agree, a vote replaces the
  opposite one, the daily limit holds, the creator is notified once.
* **Sessions**: a suspended or deleted user is not admitted, no session outlives the
  role it was made with, what was logged out stays logged out.
* **Identity**: a deactivated member stays deactivated and gets no more messages, a
  user that holds a token has a profile, one member is one user.
* **Answers**: question, answers and reputation agree about which answer is
  accepted, everybody has what their live rows are worth, the count is right, and
  nothing that is on hold is without a review that waits.
* **Questions**: a pinned question is never hidden, and the count of a tag is the
  number of its available relations.
* **Revisions**: an object shows its newest revision that has passed (of a tag the
  newest with a text), and an author is rewarded once for an edit that was applied.
* **Notifications**: one per achievement, which in the end is not older than the last
  change somebody was told of, and every follower is told in spite of a full queue.
* **Mail links**: an account is activated only with an address that received a link.
* **Files**: what is available or referred to is in place; what nobody refers to is
  cleared in the end.
* **Plugin storage**: the cache never answers with an old value, when calls come one
  after the other.
* **Follows**: everybody follows what they asked for last, once, also after a merge.
* **Badges**: nobody gets an award twice, and the count is the number of awards.
* **Site settings**: an upgrade, however often it ends and is repeated, loses no setting,
  and the server after it is not given what was cached before it.

The hazards, each at its line and with the properties that would catch it, are the
list `hazards` of `PROJECT.json`. Where the code itself has a race or a gap that nothing
in the repository rules out, the model contains it and a history variable leaves it
out of the properties: no property catches it, and the note of the hazard says so.

## 2. The modules

| Module | Role | Code |
|---|---|---|
| `RWMutex` | Go's readers-writer lock: an announced writer keeps new readers out | `sync.RWMutex` (external) |
| `AsyncQueue` | abstract: what `Service[T]` promises | `internal/base/queue/queue.go:29-38` |
| `Queue` | the queue, one action per lock or channel operation; refines `AsyncQueue` | `internal/base/queue/queue.go` |
| `MCQueue`, `MessagesProofs` | instances; theorems (also of `MailLinks` and `Notices`) | |
| `Votes` | requests that vote on one object, one action per statement or commit | `vote_service.go`, `vote_repo.go`, `user_rank_repo.go` |
| `MCVotes`, `VotesProofs` | instances; theorems | |
| `Sessions` | requests of one user, one action per cache or database operation | `service/auth`, `repo/auth`, `middleware/auth.go`, `user_service.go`, `user_backyard.go` |
| `MCSessions`, `SessionsProofs` | instances; theorems | |
| `Identity` | requests and events about one WeCom member, one action per call or statement | `service/wecom`, `vaultapp/server.go`, `user_center_login_service.go`, `user_backyard.go` |
| `MCIdentity`, `IdentityProofs` | instances; theorems | |
| `KVStore`, `StorageProofs` | calls of a plugin, one action per access to the cache or the table; theorems | `plugin/kv_storage.go` |
| `MailLinks`, `MessagesProofs` | links sent by mail and the account data they change; theorems | `email_repo.go`, `user_service.go` |
| `Notices`, `MessagesProofs` | the worker of the notification queue and the requests of one reader; theorems | `notification_common/notification.go`, `notification_service.go` |
| `Uploads`, `StorageProofs` | uploads, a change of avatar, the clean-up job, crashes; theorems | `upload.go`, `file_record_service.go`, `cron.go`, `user_service.go` |
| `Answers`, `QuestionsProofs` | the answers of one question; theorems | `answer_service.go`, `review_service.go`, `repo/answer`, `repo/activity/answer_repo.go` |
| `Questions`, `QuestionsProofs` | questions and their relations to tags; theorems | `question_service.go`, `tag_common.go`, `repo/tag` |
| `Revisions`, `MeritsProofs` | edits, suggestions and their audit; theorems | `revision_service.go`, `UpdateQuestion`, `Update`, `UpdateTag`, `review_repo.go` |
| `Follows`, `VotesProofs` | who follows which tag, and the merge of tags; theorems | `follow_repo.go`, `follow_service.go`, `activity_common/follow.go` |
| `Badges`, `MeritsProofs` | the awards of one badge; theorems | `service/badge`, `repo/badge`, `repo/badge_award` |
| `MCServices` | one instance of the nine modules above | |
| `SiteSettings`, `StorageProofs` | upgrades, saved settings and the cache file, one action per statement; theorems | `internal/migrations`, `siteinfo_service.go`, `siteinfo_repo.go`, `base/data/data.go` |
| `MCSite` | one instance of `Identity` and of `SiteSettings` | |
| `Sums` | lemmas about least numbers and sums over finite sets, which the ledgers of `Votes` and `Answers` and the rows of `SiteSettings` need | |

### Queue

`chan` and `chanClosed` are the Go channel, `closed`, `handlerSet` and the variables
of `RWMutex` the fields of the struct, `pc` says where each goroutine is: senders
and closers are goroutines that call `Send` and `Close`, registrars call
`RegisterHandler`, the worker runs `startWorker` and `processMessage`. `sent`,
`received`, `dropped` and `early` (the calls of `Send` that had begun when the handler
was registered) are history. A message is the pair of its sender and the
number of the call. The `select` of `Send` is two actions (`SendEnqueue`,
`SendCancelled`), of which either may happen when both can. `Lock` takes two steps,
as in Go: it announces itself (`LockAnnounce`), which keeps new readers out, and is
granted when the readers that were inside have left.

The code can jam: the worker waits for the read lock behind an announced writer, the
writer for a sender inside the read lock, the sender for room that only the worker
makes (`Jammed`). The model keeps those states, in which nobody moves unless a
context is cancelled (`Stuck`); what is promised about progress, `CallsReturn` and the
fairness of `AsyncQueue`, is promised as long as the queue has not jammed, and
`RegisterReturns` shows that it can.

Left out: what handlers do. `WorkerHandled` is the return of the handler; that it
returns is an assumption of the liveness properties.

### Votes

`exists`, `active` and `gain` are the columns of the activity table for the voters of
one object: a row per voter, direction and side. `rank` is `user.rank`, `voteCount`
the object's `vote_count`, `locked` the row locks of `SELECT ... FOR UPDATE`. A
request looks up its rows one query at a time (`CancelRead`, `VotePreCheck`), locks
the users (`CancelLock`, `VoteLock`), reads inside the transaction (`VoteCheck`) and
commits (`CancelCommit`, `VoteCommit`), then counts and saves. Statements outside a
transaction are one action each. What a transaction writes becomes visible at its
commit, so its writes are part of the commit; what it reads is an action before it.
`CancelLock` and `VoteLock` take the rows of all users of a transaction at once, as the
one `SELECT ... WHERE id IN (...) FOR UPDATE` of `acquireUserInfo` does. `CancelLock` locks the users of the rows that were alive when they
were read; `Booked` passes over those of the others, as `rollbackUserRank` does
(`vote_repo.go:140-146`, `295-298`).
`Fail` is a failing statement before or in a transaction, `FailCounting` one of the
three that are logged only. `DeleteObject` is the deletion of the object by somebody
else, which a request that has checked for it does not notice.

Left out or abstracted: the rank agent plugin (it switches ranks off), events, the
list of votes, and that rows of yesterday do not count for today's limit. The row
locks are those of MySQL and PostgreSQL; SQLite has none but one writer at a time.

### Sessions

`user` is the row, `token`, `admin`, `visit`, `changed` and `mapping` the cache keys of
`internal/base/constant/cache_key.go`. Every request has an operation `op`, the copy
of the account it carries (`info`), the mapping it has read (`known`) and its next
operation (`pc`). A login makes the token that has its own number. `ended` and
`before` are history: the tokens a removal is to end were alive when it began.

`tainted` is a history variable that limits what the properties speak of. It is set
when an update of the mapping was lost, when a session survived a removal that took
it out of the mapping (`UserModifyPassword` keeps the current one), and when two
requests met that `Clash`: one ends sessions while the other writes the entries of
one. The code does not keep those apart, and nothing in the repository says that it
does. All the other overlaps are inside the properties.

Left out: the cache losing or expiring entries, failing cache operations, API keys,
the status a user center plugin reports. Changes of the account are made one at a
time. A suspension that is lifted by the scheduler is a restore. A deleted user who
registers again is another user.

### Identity

`status` is the member's row in the vault (`IdentityMapping`), `users`, `links` and
`profile` the rows of `user`, `user_external_login` and `anonymous_profile` for the
subject it maps to. One member is enough: no statement touches the rows of two, and
the subject is a function of the member. A request is a login callback, a
`create_user` or `update_user` event (`sync`), a `delete_user` event (`dismiss`), an
administrator's deletion of a user (`remove`) or the notice about a reply
(`notify`); `pc` is its next statement, `got`, `account` and `owner` what it has read.
The vault's handlers are part of the request that calls them: `ResolveRead` is the
`Get` of `resolve`, `ResolveInsert` and `ResolveWrite` its two ends, `StatusRead` and
`StatusWrite` those of `updateStatus`. The user that login `r` registers is called `r`,
and requests are numbered in the order in which they begin.

`Leave` and `Rejoin` are WeCom's. From the first `Leave` on, `delete_user` events may be
delivered at any time, late and any number of times; a member who has left cannot be
fetched (`FetchUserProfile`). `Fail` is an error of a call or statement, which ends
the request; an answer that is lost after its effect is the same as the failure of
the call that follows. `HandleEventCallback` answers the event with success in any
case, which is what `handled` records. Both unique keys on `anon_subject_id`
(the vault's and the profile's) are in the model, and that `user_external_login` has
none: `GetByExternalID` returns any of the rows that match.

`settled` is history: a deactivation that no resolve, which had read another status
before, was about to overwrite. `Impatient` says whether a member may start a login
before the last one has ended. With it the model reaches two users and two links
for one subject, since nothing is unique there.

Left out: reveal and the audit log, `syncAnonymousProfileStatus` and
`updateIdentityStatus` (nothing calls them), preview users, usernames that users
change, signatures and encryption. Activating the user and caching the session
change nothing the module speaks of; they belong to Sessions.

### The services of MCServices

The nine modules that follow are written in the same way: a request is a record or
a `pc` and what it has read, each statement, each access to the cache and each
operation on the disk is an action, and what a transaction writes becomes visible
in one action, its commit. A failing statement ends the request, or is only logged
where the code says so; the bound of such failures has a name in each module
(`MaxKVFaults`, `MaxLosses`, `MaxMishaps`, `MaxBreaks`, `MaxLapses`, `MaxSlips`,
`MaxDrops`). History variables (`excused`, `proven`, `risked`, `disturbed`, `torn`,
`stale`, `contested`, `blurred`, `moved`, `overwritten`, `miscounted` and those of
Questions) mark what a property does not speak of: overlaps that nothing in the code
keeps apart and for which it promises nothing. Each property names them.

* **KVStore.** `stored` is the table, `entry` the cache, `session` who is inside `Tx`,
  whose writes become rows at `TxCommit` while the cache changes at once.
  (`Del` of a group removes the entry of the empty key only, `kv_storage.go:219`: one call
  is enough to see it, and the keys it leaves are excused.)
* **MailLinks.** `codeEntry` and `latest` are the two keys of the cache, `mailing` the
  goroutines that save a code and then send it, `mailbox` what has arrived. A code
  may be followed in any order and more than once; `VerifyCode` reads, deletes and
  compares it in three steps. The comment at `email_repo.go:77` says that a link to
  unsubscribe always works before it is out of date, while line 75 deletes the code
  at its first use; the model does what the code does.
* **Notices.** `mail` is the queue, taken for what `AsyncQueue` says of it. `worth` is
  what the object is worth according to the table, which the worker reads at some
  later time (`ReadSum`). A change of rank is told to its receiver (`Happens`) unless
  the receiver caused it (`HappensUntold`, `answer_repo.go:311` and `:345`: the asker
  accepts or cancels, a moderator accepts his own answer); `since` is history, what the
  object was worth since the last change that was told, and `RankShown` says that a
  notification nobody is at work on shows one of those. `owed` are messages to be sent after a commit, `fans` the
  goroutines that send copies to followers. The red dot is a cached number that
  worker and requests read and write. Left out: external notifications, mail, the
  texts.
* **Uploads.** `place` says where a file is: nowhere, in the upload directory, in the
  bin. The job reads a page of records, looks up each file and deletes record and
  file one after the other; `Crash` is possible between any two steps. Ages are
  abstracted to "older than the limit of the job" (`aged`).
* **Answers.** `acceptedId`, `adopted` and `answerCount` are the columns, `acts` the rows
  of both types of activity, `gained` the ranks. `AcceptAnswer` goes through three
  columns, then takes back what the answer before it brought and gives what the
  new one brings, each in a transaction that first looks up its rows outside it.
* **Questions.** `rel` are the relations to tags with their three statuses, `tagCount`
  the numbers of the tags. Every operation reads the question first, and ends with
  the refresh of the numbers.
* **Revisions.** `body` is what an object shows, in two parts (text; tags of a question
  or name of a tag) that are written by two statements. `Edit` begins if no revision
  waits; `RevisionAudit` writes the content of a revision, then its status, then the
  reputation under the lock of the author's row. An approved suggestion for a tag
  changes its text only, never its name; and since `tagRepo.UpdateTag` names no
  columns, an empty text (`NoText`) or name (`NoLabel`) of a tag is recorded in the
  revision, passes, and is not written (`UpdateTag`): the tag goes on to show the newest
  text that has passed, which is what `TextDecided` says of it. A look-up that fails passes the
  suggestion without applying it (`FindSubjectFails`). All callers have
  `revision_id` set to the newest revision, also one that waits, unlike the comment at
  `revision_repo.go:56`; the column is left out. Left out, too: the removal of an
  object that is edited or audited.
* **Follows.** `follows` are the rows, several for the same user and tag if two
  requests insert at the same time. A transaction is its reading and its commit,
  since nothing is locked. `moved` counts what a merge has changed without
  follow_count, `overwritten` marks a tag whose edit wrote back an old number.
* **Badges.** `awards` are the rows with the flag that hides them, `awarding` the one
  worker, `switching` the requests of administrators. `OldAwards` is the query that
  keeps an award from being made twice: it names `is_badge_deleted = 0`, which the
  mapper drops because it is zero, and that is why it also finds hidden rows. The
  status "deleted" cannot be set through the API and is left out. An award whose
  check came before a switch-off is inserted unhidden, which no property forbids.

The nine share no variable. `MCServices` lets one of them move in each behaviour
(`part`) and leaves the others as they began, so that the states of the run are the
sum of the states of nine runs, not their product. `MCSite` does the same with
`Identity` and `SiteSettings`.

### SiteSettings

`siteInfo` are the rows of `site_info` by id, each with its type and a value for each
setting; one setting stands for all that move together (`images` for what v1.8.0
moves from the write to the advanced settings, and so on). `Home` and `FormerHome` say
under which type this release, and releases before v1.8.0, keep it. `process` is what
runs: an upgrade, the server or nothing; `script/entrypoint.sh` runs `answer upgrade`
and then `answer run` without looking at the result of the first, so that the server
may run on a half-upgraded table. `at` is the number of migrations that are done, counted
from v1.5.1; `--from` lets an upgrade begin at an earlier one.

`Migrate` has no transaction: a migration, its flush of the cache and the new version
are separate actions, v1.8.0 is one action per row it inserts or strips, and
`UpgradeEnds` may come before any of them. `SplitSteps` is the order in which v1.8.0
writes; what it copies it reads before it writes anything (`seen`). The cache counts
only as the set of versions at which its entries were made; it is loaded from
`cacheFile` and saved to it each minute and at the end (`SaveCacheFile`,
`UpgradeDone`). `wanted` is history: the value that the administrator, or a migration on
purpose, gave each setting last.

`SettingsKept` leaves out `spoilt`, the settings that have met one of these gaps of the
code, each of which one call in the right state shows:

* `SaveSiteUsersSettings` (`siteinfo_service.go:196`) gives the row that it saves under
  `users_settings` the type of the interface settings (`StoredAs`). `SaveByType` writes
  the type too, so that the row of the users settings is gone; the cache hides it for an
  hour, and afterwards the defaults apply and there are two rows of interface settings.
* `splitWriteMenu` (`v30.go:96`) looks for the row it reads from instead of the row it is
  to insert (`LookedFor`), so that the advanced settings are never moved.
* `moveUserConfigToInterface` (`v27.go:75`) encodes `SiteInterfaceReq`, whose avatar
  fields are `json:"-"` in this release: the avatar settings are lost.
* `splitLegalMenu` (`v30.go:270`) does nothing where no legal page was ever saved:
  "login required" and "check update" stay where nobody looks any more.
* A page saved after an upgrade that failed overwrites what v1.8.0 has not moved yet, and
  v1.8.1, when it is repeated, resets the AI prompt.

`flushLost` marks what `NoOldEntries` leaves out: the flushed cache is saved only when
`Migrate` is over, so that a process that ends after the last version is written leaves
the old entries in the file until they expire: the next upgrade finds nothing to do.

## 3. The runs

| Run | What it checks | Bounds |
|---|---|---|
| `MCQueue_calls` | no panic, nothing lost, drained before exit, nothing dropped that was sent after `RegisterHandler` returned, refinement of `AsyncQueue`, every call returns unless the queue has jammed | 2 senders with 2 messages each, the context of one can be cancelled, 2 closers, 1 late registrar, a buffer of 1, so that senders wait with the read lock held |
| `MCQueue_register_stuck` | violation: `RegisterHandler` waits for ever | the same buffer, contexts that are never cancelled |
| `MCVotes_impatient` | ranks at least 1, no duplicate rows, one notification | 3 requests of 2 voters in any direction, 2 at a time, 1 failing statement, everybody starts with rank 1 |
| `MCVotes_patient` | both sides agree, ranks match rows, a vote replaces the opposite one, the daily limit, also when a transaction fails | as before, a voter waits for its answer; the limit is one vote up; ranks are high enough not to be cut off |
| `MCVotes_stale_rank` | violation: a cancellation takes back another rank than its row is worth | 5 requests of 2 voters, 2 at a time, a daily limit of one vote |
| `MCVotes_comment_down` | violation: a vote down on a comment is a vote up | 1 request |
| `MCSessions_overlap` | sessions follow the account, ended sessions stay ended | 4 requests of any kind but `deactivate`, 2 at a time |
| `MCSessions_admin_entry` | violation: the administrator entry survives the removal of all tokens | 1 login, 1 change of role |
| `MCSessions_inactive_admitted` | violation: a deactivated WeCom user is admitted | 3 requests, one at a time |
| `MCSite_all` | of a member: a settled deactivation is final, a token comes with a profile, one account, no message after the dismissal; of the settings: none is lost (`SettingsKept`), no entry from before an upgrade is served (`NoOldEntries`) | `Identity`: 4 requests of any kind, 3 at a time, 1 failing call, a member who waits for the answer to a login. `SiteSettings`: a new site or one of v1.5.1 with or without the optional pages, 2 upgrades from any version, 1 unplanned end, 1 page saved |
| `MCIdentity_revived` | violation: the identity of a member who has left is active after the event was answered | 3 requests (login, events), 2 at a time, nothing fails |
| `MCServices_all` | the properties of the nine services: `CacheCoherent`, `AddressProven`, `OneNoticePerObject`, `RankShown`, `AllTold`, `AvailableInPlace`, `ReferencedKept`, `OrphansCleared`, `AcceptanceAgrees`, `GainMatchesRows`, `CountAgrees`, `PendingReviewed`, `PinnedVisible`, `TagCountsAgree`, `TextDecided`, `RewardedOnce`, `FollowsAsAsked`, `AwardedOnce` | see below |

The bounds of `MCServices_all`:

| Module | Instance |
|---|---|
| `KVStore` | 2 callers, 1 group, 2 names, 2 values, 3 calls, 1 failing access |
| `MailLinks` | 2 accounts, 2 addresses, 2 requests at a time and 3 altogether, 2 codes |
| `Notices` | a reader and one follower, room for 1 message, 2 events, 1 request at a time and 2 altogether, 1 lost message |
| `Uploads` | 2 files (one may be an avatar), pages of 1, 2 changes of avatar, 1 failure or crash |
| `Answers` | 2 answers of another user (one there already), 2 requests at a time and 3 altogether, 1 break-off |
| `Questions` | 2 questions (one there already, in any state), 1 tag, 2 requests, 1 break-off |
| `Revisions` | a question and a tag, 2 texts and 2 labels, one of each empty, 2 requests at a time and 3 altogether, 1 failing statement |
| `Follows` | 2 users (one with any earlier rows), 2 tags, 2 requests, 1 failing statement |
| `Badges` | single or repeated, 2 users, 2 keys, 3 events, 2 administrators with 2 switches |

Why the bounds are enough. In the queue two senders and two closers show every pair
of roles and every order of two messages of one and of two senders; the capacity
matters only as "room" and "no room", which a buffer of one shows both. In Votes
two voters share the creator, whose row is where transactions meet; a third
request shows vote, cancel and repeated vote, and everything that crosses two
requests shows with two at a time. In Sessions two requests that overlap, before,
between or after two others, reach every state of the six keys: a session made
before, a change of the account, a request or login that overlaps it, and one that
comes after. In Identity the longest story that matters takes four requests: a login
that registers, one that fails half-way or a deletion, another login, and an event
or notice; three at a time let a login, a resolve and a deactivation meet in the
same row. In the services two requests at a time show every overlap of two, and the
third comes before or after them; a page of one file with two files shows the page
that shifts; room for one message and a copy to send shows the full queue; and a
vote up and down, a second acceptance, an edit after an audit, a merge after a
follow and a badge switched off and on while an event is handled all fit. For the
settings the story is: an upgrade that ends, the server and a page saved, and an upgrade
that runs again from where it was or from further back; the pages that may be saved are
one that a migration inserts, one it strips, one that only this release has and the one
of `StoredAs`.

`FirstKinds` makes the first request of `MCSessions_overlap` a login: without a token
only logins and changes of the account are possible, and the latter leave a state
that the initial states and the other three requests cover. `OverlapKinds` leaves out
`password`, which does to the cache what `role` does without changing the row, and
`deactivate`, which has its own run. The initial user may be inactive.

### Fairness

* Queue: every goroutine that can take a step takes one (the Go scheduler), so each
  step has weak fairness; the write lock of a `RWMutex` is granted, as Go documents.
  Nothing makes a context expire: `Cancel` has no fairness, and only the senders in
  `Cancellable` can be cancelled at all. In the server itself gin is created without
  `ContextWithFallback`, so that `ctx.Done()` of a request is `nil`, and only messages
  that are sent with another context can be.
* Votes state no liveness: the locks of the rows are the database's, and how long it
  lets a transaction wait is not said in this repository.
* Notices: weak fairness of the worker and of the goroutines that send, which run
  without anybody's help. Uploads: weak fairness of the job, which the scheduler
  starts again and again (`cron.go`); nothing is assumed of uploads or of changes of
  avatar.
* Sessions, Identity and SiteSettings state no liveness and assume no fairness. Identity never deadlocks, since members may come and go when all requests are done.

### What the violations show

1. `RegisterHandler` "can be called at any time" (`queue.go:81`). With a full buffer
   it stops the queue for good: a sender waits for room inside the read lock, the
   writer is announced, the worker cannot get the read lock. In the server handlers
   are registered during the wiring, before requests arrive, which is why it does not
   show. The same lock makes `Close` of a full queue hang.
2. `cancelActivities` says that afterwards "the activity rank will be correct". It is
   the rank read before the transaction. When the same voter's other requests cancel
   and repeat the vote in between, and the creator has reached the daily limit
   meanwhile, the row is worth 0 and 2 are taken back. (A row that was cancelled when
   it was read and is alive in the transaction is cancelled without its user's rank
   being touched, since the user was not locked: `vote_repo.go:143`, `296`. No comment
   says otherwise.)
3. A vote down on a comment has the activity type of a vote up (`getActivities`).
4. `RemoveUserAllTokens` does not remove the entries the administrator middleware
   looks at: a demoted administrator keeps the administrator routes until they expire.
5. `ExternalLogin` and `UserVerifyEmail` pass mail status and status in exchanged
   order. A user whose mail is to be verified (deactivated) is cached as available.
6. The progress notes say that the deletion of a member switches the identity off.
   A login, or a `create_user` event, that fetched the member before the deletion
   may insert the identity after `updateStatus` has found no row and answered 404,
   which `deactivateUserIdentity` does not look at. The identity stays active and
   no second event comes. (A resolve that has read `active` before the deactivation
   writes it back in the same way.)

## 4. What is proved

All theorems are of the form "every behaviour of the specification", for any
constants that satisfy the named assumption of the module.

* `VotesProofs` (`VotesAssumption`). `RankAtLeastOne` is not inductive: a transaction
  computes with the rank it has read. `Inv` adds that between `FOR UPDATE` and the
  commit the rank that was read is the rank of the table (`LockDiscipline`), that a
  row found missing under the lock is missing (`MissingRows`), that only voters vote,
  and that who was notified has a row. One lemma per step says what the step changes.
* `VotesProofs`, second part: of voters that wait for each answer (`~Impatient`, as in the
  run `MCVotes_patient`). A voter has one request at a time, both rows of a vote are
  active or none (`BothOrNone`), and what a request has read of the voter's rows is still
  so when it writes (`Patience`). From it `BothSidesAgree`, and for answers
  `VoteReplacesOpposite`. `Books` is the ledger: every rank is the initial one plus the
  gains of the user's active rows; what a request is about to book on a user is what
  the row is worth, and the user is locked. From it `RanksMatchRows` and
  `DailyLimitHeld`, for sites where no rank is cut off at 1 (`NeverCutOff`: what a user
  can lose by all rows leaves at least 1 of the initial rank; with it, as in the run, the
  cut in `ChangeUserRank` is never taken. Where it is taken the rows keep the full
  loss, and the two do not agree any more).
* `VotesProofs`, third part (`FollowsAssumption`: a finite number of users and tags).
  `FollowsInv`: two requests about the same user and tag are known to the history, so
  that a request in progress about an undoubted pair is alone with it (`Doubts`), the
  rows are what the user asked for, less what that request has yet to write
  (`WishesKept`), and a counter is the number of live rows but for those that a merge has
  moved (`CountOK`).
* `SessionsProofs` (`SessionsAssumption`, which holds for any set of numbered
  requests). `SessionsEnd` needs that the mapping knows every living session or a
  request is about to record it (`MappingCovers`), that a removal in progress covers
  what it is to end (`RemovalCovers`), that requests that met did not clash (`Apart`),
  that a token is made once (`TokensMade`) and that a request serves a session that
  has not ended (`Served`). `SessionsFollowAccount` speaks of times when no change of the
  account is under way; `Account` is what holds always: each cached entry agrees with the
  row, or is overruled by the status entry, or a request in progress that comes after the
  change is about to write it.

* `IdentityProofs` (`IdentityAssumption`: numbered requests, `Absent` differs from what
  rows hold). `Inv` has two halves. For the vault: rows stay, what a request is to
  write back is a status it has read (`StatusKnown`), and once a deactivation is
  settled no resolve is about to write `active` (`NobodyRevives`), from which
  `DeactivationHolds` and `DismissedNotTold` follow. For the accounts: whom a request
  is about is registered, a removal deletes the link of a user it has deleted
  (`Accounts`), and a login finds the link, or is alone in making the only one
  (`OneLogin`), from which `OneAccount` and `TokenHasProfile` follow. There is a
  lemma for types, one for the counters and one for each half.

* `MessagesProofs`, first part (`MailAssumption`). Activation comes by two routes: the user is
  looked up by the address of the link, or that address is written first. `MLInv`
  says what a request that has accepted a link knows at each of its statements
  (`RequestProven`): between its look-up and its last statement others may only
  write addresses that are proven as well.
* `MessagesProofs`, second part (`NoticeAssumption`). `NInv`: what the one worker has looked up and
  not found nobody else inserts (`RowKnown`, `OneRow`), and a sum that has become
  stale is followed, in `owed` or in the queue, by the message of the event that
  changed it and was told (`SumFresh`); untold changes only add to what the sum may be
  (`since`).
* `MessagesProofs`, third part, the queue (`QueueAssumption`: finite, disjoint sets of goroutines, a capacity).
  `Inv` is inductive: who is inside the mutex is where `pc` says, `closed` is set
  before the channel is closed, once, and while a sender is past its check nobody has
  set it, what was received plus what is buffered is what was sent, what was sent was issued
  (`SentIssued`), and what was dropped was issued before the handler was there
  (`DropHistory`). From it follow `NoPanic`, `Conserved`, `DrainedOnExit`,
  `HandledOnceRegistered`, and `QueueKeepsPromise`: each
  step of `Queue` is a step of the safety part of `AsyncQueue` or a stutter.
* `StorageProofs` (`UploadsAssumption`). `UInv` says whose record may be deleted: not
  that of a file with a reference, unless the reference is younger than the look-up
  (`risked`) or is being replaced. From it `AvailableInPlace` and `ReferencedKept`.
  Of `SiteSettings` (`SiteSettingsAssumption`), for any number of upgrades, saves and
  stops: `NoOldEntries`. `SiteInv` adds what an upgrade knows between the last flush and
  its end: the cache in memory is empty, and the file may be old only until the upgrade
  is over (`CacheOK`). And `SettingsKept`, with the types. `Stores` says what a statement
  leaves of what is read of the rows, a sequence of which the first of a type counts; the
  three lemmas about appended, replaced and untouched rows are all that the actions need
  to know of it. `SettingsInv` adds to the property: a setting without a row in its new
  place is worth 0 in the old one once v1.8.0 is past (`Kept`); an upgrade is never ahead
  of the version of the site, also when `--from` sent it back (`InStep`); and within
  v1.8.0, at each statement, what was read of the settings that are still to be moved is
  what is there, and none of those that were moved was left behind (`SplitOK`). It is
  the loop invariant that makes a repeated upgrade harmless: a step that finds its row
  inserts nothing.
* `StorageProofs`, third part (`KVAssumption`). `CacheCoherent` speaks of keys nobody is
  at work on; `KVInv` says what holds meanwhile, for keys that are not excused: whoever
  writes a key is alone with it (`OneWriter`), has deleted its entry and finds it deleted
  until it is done (`Cleaned`); any other entry, and what a reader is about to fill in,
  is the row (`EntryCurrent`, `FillCurrent`).
* `QuestionsProofs` (`QuestionsAssumption`). `PinnedVisible` needs that what a request
  has seen of a question is never pinned and hidden (`PinSeen`). `TagCountsAgree`
  speaks of requests that have ended; `NumbersInv` is what holds while they work: a
  number that is wrong and not excused is owed by a request that changed relations
  of the tag and has it on its list, and `HiddenInv` that a hidden question has no
  available relation but for one that a request is about to hide.
* `QuestionsProofs`, second part (`AnswersAssumption`: finite sets of answers and of
  users that accept). Four invariants that share the types. `CountInv`: a request that
  is about to write `answer_count` has the right number or is marked late. `ReviewInv`:
  who puts an answer on hold has inserted its review, or will. `AcceptInv`: while one
  request accepts, the question, the answers and the activity are what its next
  statement says. `RanksInv`: what each user got is the sum of what the live rows are
  worth to them, and what a cancellation has found is live, unless it is `torn`.
* `Sums`. The sums of the community modules are recursive functions. What they yield
  for the union of two sets, with and without an element, or for functions that agree
  is proved by induction over the size of the set, from the fact that every set of
  natural numbers has a least element (`EverySize`, `SumUnion`, `SumWith`,
  `SumWithout`, `SumAtLeast`).

* `MeritsProofs`, first part (`RevisionsAssumption`). `RInv` has three parts. `RShape`:
  types, and a request is about an object and one of its revisions. `RewardInv`:
  between lock and commit the author is locked and has no reward for the revision,
  and nobody else rewards the same author. `OrderInv`, for every object that is not
  `contested`: one edit or audit works on it, an edit when nothing waits, an audit
  about the last revision, which waits; the object shows its newest revision that has
  passed with a text, or a request is halfway that replaces it (`Replaces`), and what
  that has written so far is its content (`TextWritten`, `LabelWritten`). A
  lemma says that an object a step is not about stays in order, one per kind of
  statement that the object it is about does.
* `MeritsProofs`, second part (`BadgesAssumption`). `BInv`: the rows of two awards
  differ in user or key (`Unique`), so that hiding them keeps their number, and
  whoever has counted holds their number (`Counts`).

Every invariant of these modules was checked by TLC before it was proved.

With this every invariant and every action property that a passing run checks is a
theorem: `BothSidesAgree` and `VoteReplacesOpposite` for patient voters, `RanksMatchRows`
and `DailyLimitHeld` where in addition no rank is cut off, the others without hypotheses
but those on the constants; of `ImplementsPromise` the safety part.

What is only model-checked: liveness (`CallsReturn`, `AllTold`, `OrphansCleared`) and the liveness part of the refinement, since liveness under
fairness and `ENABLED` are beyond the prover; and the type invariant of `Notices`, whose
bound on the ids counts messages (`NInv` contains the types that its proof needs).

## 5. Plan

Done, in this order: queues, votes, sessions, identity; then plugin storage, mail
links, notifications, files, answers, questions, revisions, follows and badges,
merged into one run; then settings and upgrades. Not done, in the order in which it would add most:

1. An abstract specification of the plugin storage (a map that calls change at one
   moment each) and one of the ledger of ranks, and that `KVStore` without overlaps and
   `Votes` of patient voters implement them.
2. Removal of an object under review, and the merge of tags with its relations, as a
   composition of `Questions`, `Revisions` and `Follows`.
3. The table `activity` as one module that Votes, Answers, Revisions and Follows
   share, instead of rows of their own; it would show a daily limit that acceptances
   and votes use up together.
4. Comments with reports and moderation.
5. Pure algorithms against reference definitions: short IDs, paging, the search
   parser.

## 6. Not modelled

* Comments: one row each; the only counter beside it is that of the votes.
* Reports and moderation: a report ends in calls of the question, answer and comment
  services and adds one status column.
* Captcha and rate limits: thresholds over cached counters that nothing else reads.
* Search: queries and a parser without state, whose data is strings.
* AI conversations and the importer: thin layers over external services.
* Configuration, installation, scheduled jobs: start-up code of one process; of the
  jobs the clean-up of files is in `Uploads`. Migrations before v1.6.0 and what
  migrations do to other tables than `site_info`.
* HTTP routing, schemas, templates, translation and the user interface:
  declarations and formatting without state of their own. They are more than half
  of the lines of `internal/`, which is why the map covers a small share of it.

Of the modelled components `PROJECT.json` says what each module leaves out.
