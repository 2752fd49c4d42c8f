--------------------------- MODULE ContextLedger ---------------------------
(***************************************************************************)
(* The context store (context/store.py): feedback on suggestions, the      *)
(* owner's preferences and house rules, in one sqlite file, and            *)
(* verify_integrity, which is to notice what somebody else did to them.    *)
(*                                                                         *)
(* Every row carries the hash of its content, and the store a digest of    *)
(* the hashes of each table, refreshed for all three tables whenever the   *)
(* store writes anything.  A hash is modelled by what it was taken of.     *)
(* Each write is one sqlite transaction, hence one action; verification    *)
(* reads table after table, the rows of each and then its digest, while    *)
(* anybody may write in between.                                           *)
(***************************************************************************)
EXTENDS Naturals, FiniteSets

CONSTANTS
  KeysOf,   \* the tables, and the keys that occur in each
  Values,
  NoValue   \* no row, no hash, or no table

ASSUME LedgerAssumption == NoValue \notin Values \cup DOMAIN KeysOf

Tables == DOMAIN KeysOf
Slots == {<<t, k>> : t \in Tables, k \in UNION {KeysOf[t] : t \in Tables}}
Cells == {s \in Slots : s[2] \in KeysOf[s[1]]}
NoRow == [val |-> NoValue, hash |-> NoValue]
NoDigest == {<<NoValue, NoValue>>}  \* no entry in store_meta

VARIABLES
  row,      \* the tables
  digest,   \* store_meta
  \* verify_integrity
  left,     \* tables whose digest it has still to compare
  at,       \* the one whose rows it has read
  found,    \* the hashes it found there
  alarm,    \* it found something wrong
  \* what has happened
  truth,    \* what the store itself was last told
  meddled,  \* somebody else has changed a row
  blind,    \* rows whose hash was not that of the truth, or missing, when
            \* the store last refreshed the digests
  midway,   \* the store wrote a table between its rows and its digest
  drifted   \* rows that could be seen to be wrong as long as it has looked

looking == <<left, at, found, alarm>>
tables == <<row, digest, truth, meddled, blind>>
ledgerVars == <<row, digest, left, at, found, alarm, truth, meddled, blind, midway, drifted>>

Hashed(r, t) == {<<k, r[<<t, k>>].hash>> : k \in
                   {k \in KeysOf[t] : r[<<t, k>>].hash # NoValue}}

(* Rows of before 1.4.0 have an empty hash; the migration adds the column  *)
(* to the feedback table, the only one there was.                          *)
LedgerInit ==
  /\ truth \in [Cells -> Values \cup {NoValue}]
  /\ \A s \in Cells : truth[s] # NoValue => s[1] = "feedback"
  /\ row = [s \in Cells |-> [val |-> truth[s], hash |-> NoValue]]
  /\ digest = [t \in Tables |-> NoDigest]
  /\ meddled = FALSE /\ blind = {s \in Cells : row[s].hash # truth[s]}
  /\ left = {} /\ at = NoValue /\ found = {} /\ alarm = FALSE
  /\ midway = FALSE /\ drifted = {}

(* Rows that are not what the store was told, and can be seen not to be:   *)
(* not those without a hash (of old, or smuggled in), those changed before *)
(* the store's next write took them into the digests, and feedback that    *)
(* has been emptied.                                                       *)
Drifting ==
  {s \in Cells :
     /\ row[s].val # truth[s] /\ s \notin blind
     /\ row[s] = NoRow \/ row[s].hash # NoValue
     /\ s[1] = "feedback" => Hashed(row, "feedback") # {}}
Watched == drifted' = drifted \cap Drifting'

-----------------------------------------------------------------------------
(* The store.                                                              *)

Write(s, v) ==
  /\ row' = [row EXCEPT ![s] = IF v = NoValue THEN NoRow ELSE [val |-> v, hash |-> v]]
  /\ truth' = [truth EXCEPT ![s] = v]
  /\ digest' = [t \in Tables |-> Hashed(row', t)]  \* _refresh_digest
  /\ blind' = {c \in Cells : row'[c].hash # truth'[c]}
  /\ midway' = (midway \/ s[1] = at)
  /\ UNCHANGED <<meddled, looking>> /\ Watched

(* record_feedback, set_preference, add_rule                               *)
Put(s) == \E v \in Values : Write(s, v)

(* unset_preference, remove_rule: the digests are refreshed even when no   *)
(* row was deleted.  Feedback is never removed on its own.                 *)
Remove(s) == s[1] # "feedback" /\ Write(s, NoValue)

(* Mutant: the digests are not dropped.                                    *)
Mut_ForgetEverything ==
  /\ row' = [s \in Cells |-> NoRow] /\ truth' = [s \in Cells |-> NoValue]
  /\ blind' = {} /\ midway' = (midway \/ at # NoValue)
  /\ UNCHANGED <<digest, meddled, looking>> /\ Watched

ForgetEverything ==
  /\ row' = [s \in Cells |-> NoRow] /\ truth' = [s \in Cells |-> NoValue]
  /\ digest' = [t \in Tables |-> NoDigest]
  /\ blind' = {} /\ midway' = (midway \/ at # NoValue)
  /\ UNCHANGED <<meddled, looking>> /\ Watched

-----------------------------------------------------------------------------
(* Somebody else, with a sqlite shell.                                     *)

Meddle(s, r) ==
  /\ r # row[s] /\ row' = [row EXCEPT ![s] = r] /\ meddled' = TRUE
  /\ UNCHANGED <<digest, truth, blind, midway, looking>> /\ Watched

Outside(s) ==
  \/ Meddle(s, NoRow)
  \/ row[s] # NoRow /\ \E w \in Values : Meddle(s, [row[s] EXCEPT !.val = w])
  \/ row[s] = NoRow /\ \E w \in Values, h \in Values \cup {NoValue} :
                        h \in {w, NoValue} /\ Meddle(s, [val |-> w, hash |-> h])

-----------------------------------------------------------------------------
(* verify_integrity, of `jarvis doctor`.                                   *)

BeginVerify ==  \* the one before was over, or was killed
  /\ left' = Tables /\ at' = NoValue /\ found' = {} /\ alarm' = FALSE
  /\ midway' = FALSE /\ drifted' = Drifting
  /\ UNCHANGED tables

ContentOk(t) == \A k \in KeysOf[t] : row[<<t, k>>].hash \in {NoValue, row[<<t, k>>].val}

(* The digest of feedback is not looked at when no row has a hash, that of *)
(* another table when a row is not what its hash says.                     *)
Skipped(t) == IF t = "feedback" THEN Hashed(row, t) = {} ELSE ~ContentOk(t)
ReadRows(t) ==
  /\ at = NoValue /\ t \in left /\ (t = "feedback" \/ "feedback" \notin left)
  /\ alarm' = (alarm \/ ~ContentOk(t))
  /\ \/ Skipped(t) /\ left' = left \ {t} /\ UNCHANGED <<at, found>>
     \/ ~Skipped(t) /\ at' = t /\ found' = Hashed(row, t) /\ UNCHANGED left
  /\ UNCHANGED <<tables, midway, drifted>>

(* Mutant: rows may be added.                                              *)
Mut_DigestOk == digest[at] \subseteq found \/ (found = {} /\ digest[at] = NoDigest)

(* A table without hashes may also be one whose digest was never taken.    *)
DigestOk == digest[at] = found \/ (found = {} /\ digest[at] = NoDigest)
ReadDigest ==
  /\ at # NoValue /\ alarm' = (alarm \/ ~DigestOk)
  /\ left' = left \ {at} /\ at' = NoValue /\ found' = {}
  /\ UNCHANGED <<tables, midway, drifted>>

LedgerNext ==
  \/ \E s \in Cells : Put(s) \/ Remove(s) \/ Outside(s)
  \/ ForgetEverything
  \/ BeginVerify \/ \E t \in Tables : ReadRows(t)
  \/ ReadDigest

LedgerSpec == LedgerInit /\ [][LedgerNext]_ledgerVars

-----------------------------------------------------------------------------
LedgerTypeOK ==
  /\ row \in [Cells -> [val : Values \cup {NoValue}, hash : Values \cup {NoValue}]]
  /\ \A t \in Tables : digest[t] = NoDigest \/ digest[t] \subseteq (KeysOf[t] \X Values)
  /\ truth \in [Cells -> Values \cup {NoValue}]
  /\ meddled \in BOOLEAN /\ blind \subseteq Cells
  /\ left \subseteq Tables /\ at \in left \cup {NoValue} /\ alarm \in BOOLEAN
  /\ found \subseteq IF at = NoValue THEN {} ELSE KeysOf[at] \X Values
  /\ midway \in BOOLEAN /\ drifted \subseteq Cells

(* verify_integrity raises an alarm over the store's own writes, in any    *)
(* order, whichever tables they touch and however old the first rows are,  *)
(* only if one of them fell between the rows of its table and the digest.  *)
HonestUseVerifies == alarm /\ ~meddled => midway

(* A row that was wrong, and could be seen to be, for as long as           *)
(* verify_integrity took is reported, whatever else was written or         *)
(* tampered with meanwhile.                                                *)
DriftIsReported == left = {} /\ drifted # {} => alarm
=============================================================================
