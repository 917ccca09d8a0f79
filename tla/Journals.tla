------------------------------- MODULE Journals -------------------------------
(* Accounting events, the posting rules that are in force when they happen,   *)
(* their journals and the ERP these are handed to; and the maker-checker      *)
(* requests that change accounts and rules meanwhile.  A request is made and  *)
(* approved by two users; approving one that has become illegal rolls back    *)
(* and leaves it pending.                                                     *)
EXTENDS PostingRules, FiniteSets

CONSTANTS Types,        \* event types
          References,   \* event_reference values
          AmountRows,   \* what can be read for an event, by source
          Rows,         \* rows of chart_of_accounts
          SeedCode,     \* the code each row is seeded with, or NoCode
          NoCode,       \* the row is not there yet
          Codes,        \* account_code values
          Rules,        \* sequences of mapping lines; <<>> is SUMMARY_ONLY
          SeedRule,     \* the rule each type is seeded with
          LastDay,      \* bound: days that pass
          Horizon,      \* bound: days a version may begin on
          MaxVersions,  \* bound: versions of a mapping
          MaxPending,   \* bound: requests pending at once
          MaxAccepted   \* bound: times the ERP accepts one journal

ASSUME JournalsAssumption ==
  /\ NoCode \notin Codes /\ SeedCode \in [Rows -> Codes \cup {NoCode}]
  /\ SeedRule \in [Types -> Rules]
  /\ {LastDay, Horizon, MaxVersions, MaxPending, MaxAccepted} \subseteq Nat

VARIABLES today,
          account,   \* ChartOfAccount rows: code and is_active
          mapping,   \* for each type its versions, oldest first
          requests,  \* pending approval requests of the chart of accounts
          journal,   \* for each reference the event with its journal, or NoEvent
          accepted   \* how often the ERP has accepted the journal

vars == <<today, account, mapping, requests, journal, accepted>>
chart == <<account, mapping, requests>>

Open == 0      \* effective_to is NULL
Days == 1..Horizon
NoEvent == [event |-> "absent", status |-> "absent", is_balanced |-> FALSE]
-------------------------------------------------------------------------------
\* The current version of a type, of which there is one or none.
Active(type) == {n \in DOMAIN mapping[type] : mapping[type][n].is_active}
CurrentVersion(type) == IF Active(type) = {} THEN 0 ELSE CHOOSE n \in Active(type) : TRUE

InWindow(version, day) ==
  version.from <= day /\ (version.to = Open \/ day <= version.to)

Effective(type, day) ==
  {n \in DOMAIN mapping[type] : InWindow(mapping[type][n], day)}

\* Mutant of ResolvesTo: the oldest of them.
ResolvesToOldest(type, day, n) ==
  n \in Effective(type, day) /\ \A k \in Effective(type, day) : n <= k

\* _resolve_mapping_for: by effective dates, whether it is the current one or
\* not, and the highest of those.
ResolvesTo(type, day, n) ==
  n \in Effective(type, day) /\ \A k \in Effective(type, day) : k <= n

LineAccounts(rule) == {rule[i].account : i \in DOMAIN rule}
account_used_in_any_mapping_line(row) ==
  \E type \in Types : \E n \in DOMAIN mapping[type] : row \in LineAccounts(mapping[type][n].rule)
account_used_in_active_mapping(row) ==
  \E type \in Types : \E n \in Active(type) : row \in LineAccounts(mapping[type][n].rule)

CodeFree(code) == \A row \in Rows : account[row].code # code
Pending(action, key) == \E r \in requests : r.action = action /\ r.key = key
-------------------------------------------------------------------------------
\* seed_demo_data.
Init ==
  /\ today = 1
  /\ account = [row \in Rows |-> [code |-> SeedCode[row], is_active |-> SeedCode[row] # NoCode]]
  /\ mapping = [type \in Types |->
                  <<[rule |-> SeedRule[type], from |-> 1, to |-> Open, is_active |-> TRUE]>>]
  /\ requests = {}
  /\ journal = [ref \in References |-> NoEvent]
  /\ accepted = [ref \in References |-> 0]

NextDay == today < LastDay /\ today' = today + 1
             /\ UNCHANGED <<account, mapping, requests, journal, accepted>>
-------------------------------------------------------------------------------
\* Events and their posting.

\* The row emit adds: an event of a type without lines has no journal.
Emitted(status) ==
  [event |-> "pending", status |-> status, is_balanced |-> status = "READY"]

\* emit with a new reference; a used one returns the event that is there.
emit(ref, type, day, amounts) ==
  /\ journal[ref] = NoEvent
  /\ \/ /\ Effective(type, day) = {}
        /\ journal' = [journal EXCEPT ![ref] = Emitted("UNMAPPED")]
     \/ \E n \in Effective(type, day) :
          LET rule == mapping[type][n].rule
              status == IF rule = <<>> THEN "none" ELSE generate_journal(rule, amounts).status
          IN /\ ResolvesTo(type, day, n)
             /\ journal' = [journal EXCEPT ![ref] = Emitted(status)]
  /\ UNCHANGED <<today, chart, accepted>>

\* Mutant of Outcome: a refused journal counts as one that could not be made.
OutcomeNotBalanced(row, ok) ==
  IF ok THEN [row EXCEPT !.status = "POSTED", !.event = "posted"]
        ELSE [row EXCEPT !.status = "FAILED", !.event = "failed", !.is_balanced = FALSE]

\* _post_one_journal.
Outcome(row, ok) ==
  IF ok THEN [row EXCEPT !.status = "POSTED", !.event = "posted"]
        ELSE [row EXCEPT !.status = "FAILED", !.event = "failed"]

Ready == {ref \in References : journal[ref].status = "READY"}
Accept(refs) ==
  /\ \A ref \in refs : accepted[ref] < MaxAccepted
  /\ accepted' = [ref \in References |-> accepted[ref] + IF ref \in refs THEN 1 ELSE 0]

\* post_pending: one transaction over all READY journals, some of which the ERP
\* refuses.
post_pending(refused) ==
  /\ Ready # {} /\ refused \subseteq Ready
  /\ journal' = [ref \in References |->
                   IF ref \in Ready THEN Outcome(journal[ref], ref \notin refused)
                                    ELSE journal[ref]]
  /\ Accept(Ready \ refused)
  /\ UNCHANGED <<today, chart>>

\* The job stops after the ERP has accepted some, before its commit.
CrashWhilePosting(refs) ==
  /\ refs # {} /\ refs \subseteq Ready
  /\ Accept(refs)
  /\ UNCHANGED <<today, chart, journal>>

Retryable(row) == row.status = "FAILED" /\ row.is_balanced

retry_failed_posting(ref, ok) ==
  /\ Retryable(journal[ref])
  /\ journal' = [journal EXCEPT ![ref] = Outcome(journal[ref], ok)]
  /\ Accept(IF ok THEN {ref} ELSE {})
  /\ UNCHANGED <<today, chart>>
\* unmapped_and_failed_report, and those of its rows it offers for a retry.
unmapped_and_failed_report == {ref \in References : journal[ref].status \in {"UNMAPPED", "FAILED"}}
RetryEligible == {ref \in unmapped_and_failed_report : Retryable(journal[ref])}
-------------------------------------------------------------------------------
\* Requests.

Request(r) ==
  /\ Cardinality(requests) < MaxPending
  /\ requests' = requests \cup {r}
  /\ UNCHANGED <<today, account, mapping, journal, accepted>>

ProposeAccountCreate(code) ==
  /\ CodeFree(code) /\ ~Pending("account_create", code)
  /\ Request([action |-> "account_create", key |-> code])

\* Of its code or type; names and descriptions are left out.
ProposeAccountUpdate(row, code) ==
  /\ account[row].code # NoCode /\ ~account_used_in_any_mapping_line(row)
  /\ CodeFree(code) /\ ~Pending("account_update", row)
  /\ Request([action |-> "account_update", key |-> row, code |-> code])

ProposeAccountDeactivate(row) ==
  /\ account[row].is_active /\ ~account_used_in_active_mapping(row)
  /\ ~Pending("account_deactivate", row)
  /\ Request([action |-> "account_deactivate", key |-> row])

\* _validate_mapping_lines: both sides, on active accounts.
ValidLines(rule) ==
  rule # <<>> =>
    /\ \A side \in Sides : \E i \in DOMAIN rule : rule[i].side = side
    /\ \A row \in LineAccounts(rule) : account[row].is_active

\* Mutant of MappingPending: only a request of the same kind is in the way.
MappingPendingChange(type) == Pending("mapping_change", type)

\* One pending request per type, of either kind.
MappingPending(type) == Pending("mapping_change", type) \/ Pending("mapping_deactivate", type)

ProposeMappingChange(type, rule, from) ==
  /\ ValidLines(rule) /\ ~MappingPending(type)
  /\ Request([action |-> "mapping_change", key |-> type, rule |-> rule, from |-> from,
              base |-> CurrentVersion(type)])

ProposeMappingDeactivate(type) ==
  /\ Active(type) # {} /\ ~MappingPending(type)
  /\ Request([action |-> "mapping_deactivate", key |-> type, base |-> CurrentVersion(type)])

Reject(r) ==
  /\ r \in requests
  /\ requests' = requests \ {r}
  /\ UNCHANGED <<today, account, mapping, journal, accepted>>
-------------------------------------------------------------------------------
\* _execute, when another user approves.

Approve(r, action) ==
  /\ r \in requests /\ r.action = action
  /\ requests' = requests \ {r}
  /\ UNCHANGED <<today, journal, accepted>>

ApproveAccountCreate(r, row) ==
  /\ Approve(r, "account_create")
  /\ CodeFree(r.key) /\ account[row].code = NoCode
  /\ account' = [account EXCEPT ![row] = [code |-> r.key, is_active |-> TRUE]]
  /\ UNCHANGED mapping

CodeStillFree(row, code) == \A other \in Rows \ {row} : account[other].code # code

ApproveAccountUpdate(r) ==
  /\ Approve(r, "account_update")
  /\ CodeStillFree(r.key, r.code)
  /\ account' = [account EXCEPT ![r.key].code = r.code]
  /\ UNCHANGED mapping

StillUnused(row) == ~account_used_in_active_mapping(row)

ApproveAccountDeactivate(r) ==
  /\ Approve(r, "account_deactivate")
  /\ account[r.key].is_active /\ StillUnused(r.key)
  /\ account' = [account EXCEPT ![r.key].is_active = FALSE]
  /\ UNCHANGED mapping

\* The version that was current ends the day the next one begins.
Superseded(versions, from) ==
  [n \in DOMAIN versions |-> IF versions[n].is_active
                             THEN [versions[n] EXCEPT !.is_active = FALSE, !.to = from]
                             ELSE versions[n]]

\* The next version is numbered after the current one.  Without a current one it
\* is 1, which a type that was mapped before has used: the constraint on type
\* and version makes the transaction fail.
ApproveMappingChange(r) ==
  LET versions == mapping[r.key]
  IN /\ Approve(r, "mapping_change")
     /\ r.base = CurrentVersion(r.key)
     /\ r.base + 1 \notin DOMAIN versions
     /\ Len(versions) < MaxVersions
     /\ mapping' = [mapping EXCEPT ![r.key] =
                      Append(Superseded(versions, r.from),
                             [rule |-> r.rule, from |-> r.from, to |-> Open,
                              is_active |-> TRUE])]
     /\ UNCHANGED account

ApproveMappingDeactivate(r) ==
  /\ Approve(r, "mapping_deactivate")
  /\ r.base \in Active(r.key)
  /\ mapping' = [mapping EXCEPT ![r.key] = Superseded(mapping[r.key], today)]
  /\ UNCHANGED account
-------------------------------------------------------------------------------
Next ==
  \/ NextDay
  \/ \E ref \in References, type \in Types, day \in 1..today, amounts \in AmountRows :
       emit(ref, type, day, amounts)
  \/ \E refs \in SUBSET References : post_pending(refs) \/ CrashWhilePosting(refs)
  \/ \E ref \in References, ok \in BOOLEAN : retry_failed_posting(ref, ok)
  \/ \E code \in Codes : ProposeAccountCreate(code)
  \/ \E row \in Rows, code \in Codes : ProposeAccountUpdate(row, code)
  \/ \E row \in Rows : ProposeAccountDeactivate(row)
  \/ \E type \in Types, rule \in Rules, from \in Days : ProposeMappingChange(type, rule, from)
  \/ \E type \in Types : ProposeMappingDeactivate(type)
  \/ \E r \in requests :
       \/ Reject(r)
       \/ \E row \in Rows : ApproveAccountCreate(r, row)
       \/ ApproveAccountUpdate(r) \/ ApproveAccountDeactivate(r)
       \/ ApproveMappingChange(r) \/ ApproveMappingDeactivate(r)

Spec == Init /\ [][Next]_vars
-------------------------------------------------------------------------------
TypeOK ==
  /\ today \in Nat
  /\ account \in [Rows -> [code: Codes \cup {NoCode}, is_active: BOOLEAN]]
  /\ mapping \in [Types -> Seq([rule: Rules, from: Nat, to: Nat, is_active: BOOLEAN])]
  /\ \A ref \in References :
       /\ journal[ref].event \in {"absent", "pending", "posted", "failed"}
       /\ journal[ref].status \in {"absent", "none", "UNMAPPED", "READY", "POSTED", "FAILED"}
       /\ journal[ref].status = "absent" <=> journal[ref].event = "absent"
  /\ accepted \in [References -> Nat]

\* While a type is mapped, the rule of a day is the last version approved among
\* those that begin by that day: the windows of superseded versions leave no
\* gap and no older rule in force, whatever day in the past or the future each
\* version was to begin (gl_journal.py, "Historically correct by construction").
LastVersionRules ==
  \A type \in Types : Active(type) # {} =>
    \A day \in Days, n \in DOMAIN mapping[type] :
      ResolvesTo(type, day, n) <=>
        /\ mapping[type][n].from <= day
        /\ \A k \in DOMAIN mapping[type] : k > n => mapping[type][k].from > day

\* AccountingEvent and GLJournal tell the same outcome, which is the ERP's: an
\* event is posted with its journal, and fails only by a refusal, never because
\* its journal could not be made.  What the ERP has accepted is posted here, or is
\* offered to it again by the job or from the report of failures: a crash between
\* its answer and the commit never loses a posting.
AcceptedIsKnown ==
  \A ref \in References :
    /\ journal[ref].event = "posted" <=> journal[ref].status = "POSTED"
    /\ journal[ref].event = "failed" <=> journal[ref].status = "FAILED" /\ journal[ref].is_balanced
    /\ journal[ref].status = "POSTED" => accepted[ref] > 0
    /\ accepted[ref] > 0 => journal[ref].status = "POSTED" \/ ref \in Ready \cup RetryEligible

\* A checker approves the change its maker saw: a pending request on the mapping
\* of a type is about the version that is current, also after other requests have
\* been proposed, rejected and approved, so that none waits for the refusal "the
\* active mapping moved while this proposal was pending" (approvals.py:534-540),
\* and no version is superseded by one that was drawn up from an older.
MappingRequests == {r \in requests : r.action \in {"mapping_change", "mapping_deactivate"}}
RequestsSeeTheCurrentVersion == \A r \in MappingRequests : r.base = CurrentVersion(r.key)

\* What docs/chart-of-accounts/FSD.md:259-261 says of accounts and mappings: an
\* account a current rule posts to is not deactivated, and no rule is made for an
\* inactive account.  A rule proposed before the deactivation and approved after
\* it is not looked at again.
CurrentRulesOnActiveAccounts ==
  \A row \in Rows : account_used_in_active_mapping(row) => account[row].is_active

\* What models/gl.py:169-170 says: the code of an account is "immutable once the
\* account has been referenced by any EventAccountMappingLine".  An update proposed
\* before and approved after is not looked at again.
UsedAccountsKeepTheirCode ==
  [][\A row \in Rows : account_used_in_any_mapping_line(row) =>
       account'[row].code = account[row].code]_vars
===============================================================================
