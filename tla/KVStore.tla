------------------------------ MODULE KVStore ------------------------------
(***************************************************************************)
(* The key-value storage of a plugin, src/plugin/kv_storage.go: rows of    *)
(* the table plugin_kv_storage behind a cache.                             *)
(*                                                                         *)
(* Get looks into the cache, then reads the row and fills the cache.  Set  *)
(* and Del delete the cache entry and then write the row, so that another  *)
(* Get can fill the entry in between.  Inside Tx the rows are written in   *)
(* the session of the transaction, the cache at once.  Every access to     *)
(* the cache or to the table is one action; pc says which one is next.     *)
(***************************************************************************)
EXTENDS Naturals, FiniteSets

CONSTANTS KVCallers,   (* goroutines of the plugin *)
          KVGroups,    (* values of the column group *)
          KVNames,     (* values of the column key *)
          KVValues,    (* values of the column value *)
          NoRow,       (* no row, or no cache entry *)
          MaxKVCalls,  (* bound: calls altogether *)
          MaxKVFaults  (* bound: failing accesses to the cache *)

ASSUME KVAssumption ==
  /\ NoRow \notin KVValues
  /\ MaxKVCalls \in Nat
  /\ MaxKVFaults \in Nat

KVKeys == KVGroups \X KVNames
KVCell == KVValues \cup {NoRow}

(* What a call may be asked for: the keys it is about and, for Set, the value. *)
KVRequests ==
  [op : {"get", "del"}, on : {{k} : k \in KVKeys}, val : {NoRow}]
    \cup [op : {"set"}, on : {{k} : k \in KVKeys}, val : KVValues]
    \cup [op : {"delgroup"}, on : {{g} \X KVNames : g \in KVGroups}, val : {NoRow}]

NoRequest == [op |-> "none", on |-> {}, val |-> NoRow]

VARIABLES stored,     (* the committed rows *)
          entry,      (* the cache *)
          kvpc,       (* the next access of each caller *)
          kvreq,      (* what each caller was asked for *)
          readValue,  (* the value Get has read from the table *)
          session,    (* the callers inside Tx *)
          touched,    (* the keys each transaction has written *)
          written,    (* what it has written there *)
          kvCalls,    (* how many calls have begun *)
          kvFaults,   (* how many accesses to the cache have failed *)
          excused     (* history: the keys whose entry may be out of date *)

kvVars == <<stored, entry, kvpc, kvreq, readValue, session, touched, written,
            kvCalls, kvFaults, excused>>

KVPCs == {"idle", "cache", "read", "fill", "clean", "update", "insert", "delete"}

KVTypeOK ==
  /\ stored \in [KVKeys -> KVCell]
  /\ entry \in [KVKeys -> KVCell]
  /\ kvpc \in [KVCallers -> KVPCs]
  /\ kvreq \in [KVCallers -> KVRequests \cup {NoRequest}]
  /\ readValue \in [KVCallers -> KVCell]
  /\ session \subseteq KVCallers
  /\ touched \in [KVCallers -> SUBSET KVKeys]
  /\ written \in [KVCallers -> [KVKeys -> KVCell]]
  /\ kvCalls \in 0..MaxKVCalls
  /\ kvFaults \in 0..MaxKVFaults
  /\ excused \subseteq KVKeys

KVInit ==
  /\ stored \in [KVKeys -> KVCell]
  /\ entry = [k \in KVKeys |-> NoRow]
  /\ kvpc = [c \in KVCallers |-> "idle"]
  /\ kvreq = [c \in KVCallers |-> NoRequest]
  /\ readValue = [c \in KVCallers |-> NoRow]
  /\ session = {}
  /\ touched = [c \in KVCallers |-> {}]
  /\ written = [c \in KVCallers |-> [k \in KVKeys |-> NoRow]]
  /\ kvCalls = 0
  /\ kvFaults = 0
  /\ excused = {}

-----------------------------------------------------------------------------
KVGoto(c, from, to) == kvpc[c] = from /\ kvpc' = [kvpc EXCEPT ![c] = to]

KVReturn(c, from) ==
  /\ KVGoto(c, from, "idle")
  /\ kvreq' = [kvreq EXCEPT ![c] = NoRequest]
  /\ readValue' = [readValue EXCEPT ![c] = NoRow]

(* The key of a call that is not a Del of a group. *)
KeyOf(c) == CHOOSE k \in kvreq[c].on : TRUE
OneKey(c) == kvreq[c].op # "delgroup"

(* What a statement of caller c sees: its own writes, else what is committed. *)
KVView(c) == [k \in KVKeys |-> IF k \in touched[c] THEN written[c][k] ELSE stored[k]]

(* The rows that another transaction has written stay locked until it ends. *)
KVUnlocked(c, ks) == \A d \in KVCallers \ {c} : touched[d] \cap ks = {}

(* The statement of caller c gives the keys ks the value v. *)
KVWrite(c, ks, v) ==
  /\ KVUnlocked(c, ks)
  /\ IF c \in session
     THEN /\ touched' = [touched EXCEPT ![c] = @ \cup ks]
          /\ written' = [written EXCEPT ![c] = [k \in KVKeys |-> IF k \in ks THEN v ELSE @[k]]]
          /\ UNCHANGED stored
     ELSE /\ stored' = [k \in KVKeys |-> IF k \in ks THEN v ELSE stored[k]]
          /\ UNCHANGED <<touched, written>>

kvRows == <<stored, touched, written>>
kvCaller == <<kvreq, readValue, session>>

-----------------------------------------------------------------------------
(* Keys a caller is at work on: those of its call and of its transaction. *)
KVBusy(c) == touched[c] \cup (IF kvpc[c] = "idle" THEN {} ELSE kvreq[c].on)
KVWriting(c) == touched[c] \cup (IF kvpc[c] # "idle" /\ kvreq[c].op # "get" THEN kvreq[c].on ELSE {})

(* History: two callers that are at work on a key at the same time, one of them
   writing, may leave an old value in the cache; so may a Del of a group. *)
KVOverlap(c, r) ==
  {k \in r.on : \E d \in KVCallers \ {c} :
     k \in KVWriting(d) \/ (r.op # "get" /\ k \in KVBusy(d))}
    \cup (IF r.op = "delgroup" THEN r.on ELSE {})

KVCall(c) ==
  /\ kvpc[c] = "idle"
  /\ kvCalls < MaxKVCalls
  /\ kvCalls' = kvCalls + 1
  /\ \E r \in KVRequests :
       /\ kvreq' = [kvreq EXCEPT ![c] = r]
       /\ kvpc' = [kvpc EXCEPT ![c] = IF r.op = "get" THEN "cache" ELSE "clean"]
       /\ excused' = excused \cup KVOverlap(c, r)
  /\ UNCHANGED <<kvRows, entry, readValue, session, kvFaults>>

(* Get: a hit is the answer. *)
GetHit(c) ==
  /\ KVReturn(c, "cache")
  /\ entry[KeyOf(c)] # NoRow
  /\ UNCHANGED <<kvRows, entry, session, kvCalls, kvFaults, excused>>

(* A miss, or an error of the cache. *)
GetMiss(c) ==
  /\ KVGoto(c, "cache", "read")
  /\ entry[KeyOf(c)] = NoRow
  /\ UNCHANGED <<kvRows, entry, kvCaller, kvCalls, kvFaults, excused>>

GetCacheError(c) ==
  /\ KVGoto(c, "cache", "read")
  /\ kvFaults < MaxKVFaults
  /\ kvFaults' = kvFaults + 1
  /\ UNCHANGED <<kvRows, entry, kvCaller, kvCalls, excused>>

GetRow(c) ==
  /\ KVGoto(c, "read", "fill")
  /\ KVView(c)[KeyOf(c)] # NoRow
  /\ readValue' = [readValue EXCEPT ![c] = KVView(c)[KeyOf(c)]]
  /\ UNCHANGED <<kvRows, entry, kvreq, session, kvCalls, kvFaults, excused>>

(* ErrKVKeyNotFound; nothing is cached. *)
GetNotFound(c) ==
  /\ KVReturn(c, "read")
  /\ KVView(c)[KeyOf(c)] = NoRow
  /\ UNCHANGED <<kvRows, entry, session, kvCalls, kvFaults, excused>>

(* setCache.  The operator of a transaction has a time to live of 0, which a
   cache may take for "at once" or for "never". *)
GetFill(c) ==
  /\ KVReturn(c, "fill")
  /\ entry' = [entry EXCEPT ![KeyOf(c)] = readValue[c]]
  /\ UNCHANGED <<kvRows, session, kvCalls, kvFaults, excused>>

GetFillLost(c) ==
  /\ KVReturn(c, "fill")
  /\ c \in session
  /\ UNCHANGED <<kvRows, entry, session, kvCalls, kvFaults, excused>>

-----------------------------------------------------------------------------
AfterClean(c) == IF kvreq[c].op = "set" THEN "update" ELSE "delete"

(* Mutant: the entry is not deleted. *)
CleanCacheForgotten(c) ==
  /\ KVGoto(c, "clean", AfterClean(c))
  /\ OneKey(c)
  /\ UNCHANGED <<kvRows, entry, kvCaller, kvCalls, kvFaults, excused>>

(* Set and Del of one key delete its cache entry first. *)
CleanCache(c) ==
  /\ KVGoto(c, "clean", AfterClean(c))
  /\ OneKey(c)
  /\ entry' = [entry EXCEPT ![KeyOf(c)] = NoRow]
  /\ UNCHANGED <<kvRows, kvCaller, kvCalls, kvFaults, excused>>

(* Del of a group deletes the entry of the group with an empty key, which no
   Get ever fills. *)
CleanGroup(c) ==
  /\ KVGoto(c, "clean", "delete")
  /\ ~OneKey(c)
  /\ UNCHANGED <<kvRows, entry, kvCaller, kvCalls, kvFaults, excused>>

(* An error of the cache is logged. *)
CleanCacheError(c) ==
  /\ KVGoto(c, "clean", AfterClean(c))
  /\ kvFaults < MaxKVFaults
  /\ kvFaults' = kvFaults + 1
  /\ excused' = excused \cup kvreq[c].on
  /\ UNCHANGED <<kvRows, entry, kvCaller, kvCalls>>

(* UPDATE affects a row. *)
SetUpdate(c) ==
  /\ KVReturn(c, "update")
  /\ KVView(c)[KeyOf(c)] # NoRow
  /\ KVWrite(c, kvreq[c].on, kvreq[c].val)
  /\ UNCHANGED <<entry, session, kvCalls, kvFaults, excused>>

(* It affects none: there is no row, or, in a database that counts only rows
   that change, the row has the value already. *)
SetAffectsNone(c) ==
  /\ KVGoto(c, "update", "insert")
  /\ KVView(c)[KeyOf(c)] \in {NoRow, kvreq[c].val}
  /\ KVUnlocked(c, kvreq[c].on)
  /\ UNCHANGED <<kvRows, entry, kvCaller, kvCalls, kvFaults, excused>>

SetInsert(c) ==
  /\ KVReturn(c, "insert")
  /\ KVView(c)[KeyOf(c)] = NoRow
  /\ KVWrite(c, kvreq[c].on, kvreq[c].val)
  /\ UNCHANGED <<entry, session, kvCalls, kvFaults, excused>>

(* The unique index refuses the row; Set returns the error. *)
SetDuplicate(c) ==
  /\ KVReturn(c, "insert")
  /\ KVView(c)[KeyOf(c)] # NoRow
  /\ KVUnlocked(c, kvreq[c].on)
  /\ UNCHANGED <<kvRows, entry, session, kvCalls, kvFaults, excused>>

DelRows(c) ==
  /\ KVReturn(c, "delete")
  /\ KVWrite(c, {k \in kvreq[c].on : KVView(c)[k] # NoRow}, NoRow)
  /\ UNCHANGED <<entry, session, kvCalls, kvFaults, excused>>

-----------------------------------------------------------------------------
(* Tx, of an operator that has no session yet; a nested Tx uses the session. *)
TxBegin(c) ==
  /\ kvpc[c] = "idle"
  /\ c \notin session
  /\ kvCalls < MaxKVCalls
  /\ kvCalls' = kvCalls + 1
  /\ session' = session \cup {c}
  /\ UNCHANGED <<kvRows, entry, kvpc, kvreq, readValue, kvFaults, excused>>

TxEnd(c) ==
  /\ kvpc[c] = "idle"
  /\ c \in session
  /\ session' = session \ {c}
  /\ touched' = [touched EXCEPT ![c] = {}]
  /\ written' = [written EXCEPT ![c] = [k \in KVKeys |-> NoRow]]
  /\ UNCHANGED <<entry, kvpc, kvreq, readValue, kvCalls, kvFaults>>

TxCommit(c) ==
  /\ TxEnd(c)
  /\ stored' = KVView(c)
  /\ UNCHANGED excused

(* fn failed: the session is rolled back.  What Get put into the cache stays. *)
TxRollback(c) ==
  /\ TxEnd(c)
  /\ excused' = excused \cup touched[c]
  /\ UNCHANGED stored

(* The entry's time is over.  With nobody at work on the key, the entry that
   the next Get fills is up to date again. *)
KVExpire(k) ==
  /\ entry[k] # NoRow
  /\ entry' = [entry EXCEPT ![k] = NoRow]
  /\ excused' = IF \A c \in KVCallers : k \notin KVBusy(c) THEN excused \ {k} ELSE excused
  /\ UNCHANGED <<kvRows, kvpc, kvCaller, kvCalls, kvFaults>>

-----------------------------------------------------------------------------
KVStep(c) ==
  \/ KVCall(c)
  \/ GetHit(c) \/ GetMiss(c) \/ GetCacheError(c) \/ GetRow(c) \/ GetNotFound(c)
  \/ GetFill(c) \/ GetFillLost(c)
  \/ CleanCache(c) \/ CleanGroup(c) \/ CleanCacheError(c)
  \/ SetUpdate(c) \/ SetAffectsNone(c) \/ SetInsert(c) \/ SetDuplicate(c)
  \/ DelRows(c)
  \/ TxBegin(c) \/ TxCommit(c) \/ TxRollback(c)

KVNext ==
  \/ \E c \in KVCallers : KVStep(c)
  \/ \E k \in KVKeys : KVExpire(k)

KVSpec == KVInit /\ [][KVNext]_kvVars

-----------------------------------------------------------------------------
(* A cached value is the value of the row, unless a writer of the key overlapped
   another call, a transaction that wrote it was rolled back, the cache failed
   to delete the entry, or a whole group was deleted since the entry was filled:
   one after the other, Get, Set, Del of a key and committed transactions never
   let a plugin read a value that is out of date. *)
CacheCoherent ==
  \A k \in KVKeys \ excused : entry[k] # NoRow /\ (\A c \in KVCallers : k \notin KVBusy(c))
                              => entry[k] = stored[k]
=============================================================================
