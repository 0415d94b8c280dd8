------------------------------ MODULE Polling ------------------------------
(***************************************************************************)
(* A screen that reads and re-reads what it shows: usePolledResource.ts    *)
(* and the pages that use it.  A page is the list of monitors, a detail    *)
(* page or the settings; the overview, which writes nothing, is a list,    *)
(* and the public page, which neither does, a detail page.  A target is    *)
(* what the address names: the monitor of the detail page, the slug of the *)
(* public one; lists and settings have one.  React keeps the component     *)
(* when only the target changes.                                           *)
(*                                                                         *)
(* Of the reads only the one of the effect is aborted; the reads of the    *)
(* timer and of reload() are not, and nothing orders the answers.  What a  *)
(* target is on the server is a version that other actors move on.         *)
(***************************************************************************)
EXTENDS Integers

CONSTANTS
    Targets,
    Reads,         \* reads of the timer that may be under way at once
    Writes,        \* writes of a list that may be under way at once
    MaxVersion,    \* bound on the changes of a target
    MaxMoves,      \* bound on the navigations
    MaxFailures,   \* bound on the failed reads
    NoTarget

ASSUME PollingAssumption ==
    /\ NoTarget \notin Targets
    /\ MaxVersion \in Nat /\ MaxMoves \in Nat /\ MaxFailures \in Nat

Nothing == [target |-> NoTarget, version |-> 0, late |-> FALSE]
NoRead  == [target |-> NoTarget, stage |-> "none", version |-> 0, late |-> FALSE]
NoWrite == [stage |-> "none"]

VARIABLES
    page,       \* "list", "detail" or "settings"
    target,     \* of the address; NoTarget before the page is opened
    data,       \* what is shown: [target, version], late if its read was
    failed,     \* error # null
    loading,
    effect,     \* the read with a signal
    reads,      \* the others; late: was under way at a navigation or before a reload
    writes,     \* the page's own writes and their reloads: [stage, target, version, read]
    version,    \* of what a target shows, on the server
    saved,      \* the last version of a target that the page wrote and read back
    used        \* [moves, failures]

plVars == <<page, target, data, failed, loading, effect, reads, writes, version, saved, used>>

PlInit ==
    /\ page \in {"list", "detail", "settings"}
    /\ target = NoTarget /\ data = Nothing /\ failed = FALSE /\ loading = TRUE
    /\ effect = NoRead /\ reads = [r \in Reads |-> NoRead] /\ writes = [o \in Writes |-> NoWrite]
    /\ version = [t \in Targets |-> 0] /\ saved = [t \in Targets |-> 0]
    /\ used = [moves |-> 0, failures |-> 0]

Fetch(t) == [target |-> t, stage |-> "sent", version |-> 0, late |-> t # target]

polls == page # "settings"   \* the others have an interval

Overtaken(read) == IF read = NoRead THEN NoRead ELSE [read EXCEPT !.late = TRUE]

OvertakeReads == reads' = [r \in Reads |-> Overtaken(reads[r])]

\* The read of a write that reloads is overtaken as well.
Passed(w) == IF w.stage = "reloading" THEN [w EXCEPT !.read = Overtaken(@)] ELSE w

-----------------------------------------------------------------------------
(* The hook.                                                                *)

\* mutant: a new fetcher does not replace the read under way.
FirstEffect(t) == IF effect # NoRead THEN effect ELSE [Fetch(t) EXCEPT !.late = FALSE]
NewEffect(t) == [Fetch(t) EXCEPT !.late = FALSE]

\* The effect runs for a new fetcher: the cleanup aborts the read it had started
\* and clears the timer; data, error and loading stay as they are, and so do the
\* reads without a signal.
Show(t) ==
    /\ t # target /\ (page = "detail" \/ target = NoTarget)
    /\ used.moves < MaxMoves
    /\ target' = t /\ effect' = NewEffect(t)
    /\ OvertakeReads
    /\ writes' = [o \in Writes |-> Passed(writes[o])]
    /\ used' = [used EXCEPT !.moves = @ + 1]
    /\ UNCHANGED <<page, data, failed, loading, version, saved>>

PollsUnlessFailed == polls /\ target # NoTarget /\ ~failed  \* mutant: an error ends the polling
PollDue == polls /\ target # NoTarget

BeginRead(r) ==
    /\ reads[r] = NoRead
    /\ reads' = [reads EXCEPT ![r] = Fetch(target)]
    /\ UNCHANGED <<page, target, data, failed, loading, effect, writes, version, saved, used>>

Poll(r) == PollDue /\ BeginRead(r)

\* "Try again" on settings, where nothing else reads again; elsewhere it is as a poll.
Retry(r) == ~polls /\ failed /\ data = Nothing /\ BeginRead(r)

Answered(read) ==
    [target |-> read.target, stage |-> "answered", version |-> version[read.target], late |-> read.late]

\* run() after its fetch: setData, setError(null), setLoading(false).
Settle(read) ==
    /\ data' = [target |-> read.target, version |-> read.version, late |-> read.late]
    /\ failed' = FALSE /\ loading' = FALSE

SettleFailed ==
    /\ used.failures < MaxFailures
    /\ used' = [used EXCEPT !.failures = @ + 1]
    /\ failed' = TRUE /\ loading' = FALSE /\ UNCHANGED data

EffectRead ==
    /\ \/ /\ effect.stage = "sent" /\ effect' = Answered(effect)
          /\ UNCHANGED <<data, failed, loading, used>>
       \/ /\ effect.stage = "answered" /\ effect' = NoRead
          /\ Settle(effect) /\ UNCHANGED used
    /\ UNCHANGED <<page, target, reads, writes, version, saved>>

EffectFails ==
    /\ effect # NoRead /\ effect' = NoRead
    /\ SettleFailed
    /\ UNCHANGED <<page, target, reads, writes, version, saved>>

OtherRead(r) ==
    /\ \/ /\ reads[r].stage = "sent" /\ reads' = [reads EXCEPT ![r] = Answered(@)]
          /\ UNCHANGED <<data, failed, loading, used>>
       \/ /\ reads[r].stage = "answered" /\ reads' = [reads EXCEPT ![r] = NoRead]
          /\ Settle(reads[r]) /\ UNCHANGED used
    /\ UNCHANGED <<page, target, effect, writes, version, saved>>

OtherFails(r) ==
    /\ reads[r] # NoRead /\ reads' = [reads EXCEPT ![r] = NoRead]
    /\ SettleFailed
    /\ UNCHANGED <<page, target, effect, writes, version, saved>>

-----------------------------------------------------------------------------
(* The writes of the pages.                                                 *)

SetWrite(o, w) == writes' = [writes EXCEPT ![o] = w]

\* Pause, edit, publish, add, delete.  Detail and settings are disabled as a whole
\* while one is under way; a list only disables one row.  The write goes to the
\* target of the address (patch of the detail page), or to a row.
StartWrite(o) ==
    /\ writes[o] = NoWrite /\ data # Nothing
    /\ page = "list" \/ \A other \in Writes : writes[other] = NoWrite
    /\ SetWrite(o, [stage |-> "sent", target |-> target, version |-> 0])
    /\ UNCHANGED <<page, target, data, failed, loading, effect, reads, version, saved, used>>

ServerWrites(o) ==
    LET t == writes[o].target IN
    /\ writes[o].stage = "sent" /\ version[t] < MaxVersion
    /\ version' = [version EXCEPT ![t] = @ + 1]
    /\ SetWrite(o, [stage |-> "written", target |-> t, version |-> version[t] + 1])
    /\ UNCHANGED <<page, target, data, failed, loading, effect, reads, saved, used>>

\* A refusal or a lost answer is a message; the page keeps what it shows.
WriteFails(o) ==
    /\ writes[o].stage \in {"sent", "written"}
    /\ SetWrite(o, NoWrite)
    /\ UNCHANGED <<page, target, data, failed, loading, effect, reads, version, saved, used>>

\* await load(): an unsignalled read by the closure of the write, for its target.
Reloading(w) ==
    [stage |-> "reloading", target |-> w.target, version |-> w.version, read |-> Fetch(w.target)]

Reload(o) ==
    /\ writes[o].stage = "written"
    /\ writes' = [x \in Writes |-> IF x = o THEN Reloading(writes[o]) ELSE Passed(writes[x])]
    /\ OvertakeReads /\ effect' = Overtaken(effect)
    /\ UNCHANGED <<page, target, data, failed, loading, version, saved, used>>

\* History: what was read back is the last of the page's versions of its target.
Confirm(w) ==
    saved' = [saved EXCEPT ![w.target] = IF w.version > @ THEN w.version ELSE @]

SameData(w) == data      \* mutant: setData is not called
WrittenData(w) == [target |-> w.target, version |-> w.version, late |-> FALSE]

\* Settings: the answer of the write is the new state.
SetData(o) ==
    /\ writes[o].stage = "written" /\ page = "settings"
    /\ data' = WrittenData(writes[o])
    /\ Confirm(writes[o])
    /\ SetWrite(o, NoWrite)
    /\ OvertakeReads /\ effect' = Overtaken(effect)
    /\ UNCHANGED <<page, target, failed, loading, version, used>>

ReloadRead(o) ==
    LET w == writes[o] IN
    /\ w.stage = "reloading"
    /\ \/ /\ w.read.stage = "sent" /\ SetWrite(o, [w EXCEPT !.read = Answered(@)])
          /\ UNCHANGED <<data, failed, loading, saved>>
       \/ /\ w.read.stage = "answered" /\ SetWrite(o, NoWrite)
          /\ Settle(w.read)
          /\ Confirm(w)
    /\ UNCHANGED <<page, target, effect, reads, version, used>>

\* run() swallows the failure: the write still ends as a success.
ReloadFails(o) ==
    /\ writes[o].stage = "reloading" /\ SetWrite(o, NoWrite)
    /\ SettleFailed
    /\ UNCHANGED <<page, target, effect, reads, version, saved>>

\* Another tab, a result, the scheduler.
Change(t) ==
    /\ target # NoTarget /\ version[t] < MaxVersion
    /\ version' = [version EXCEPT ![t] = @ + 1]
    /\ UNCHANGED <<page, target, data, failed, loading, effect, reads, writes, saved, used>>

PlNext ==
    \/ \E t \in Targets : Show(t) \/ Change(t)
    \/ \E r \in Reads : Poll(r) \/ Retry(r) \/ OtherRead(r) \/ OtherFails(r)
    \/ EffectRead \/ EffectFails
    \/ \E o \in Writes :
         \/ StartWrite(o) \/ ServerWrites(o) \/ WriteFails(o)
         \/ Reload(o) \/ SetData(o) \/ ReloadRead(o) \/ ReloadFails(o)

PlSpec == PlInit /\ [][PlNext]_plVars

\* Timers fire and fetches settle.
PlFairness ==
    /\ WF_plVars(EffectRead \/ EffectFails)
    /\ \A o \in Writes :
         /\ WF_plVars(ServerWrites(o) \/ WriteFails(o)) /\ WF_plVars(Reload(o) \/ SetData(o))
         /\ WF_plVars(ReloadRead(o) \/ ReloadFails(o))
    /\ \A r \in Reads : WF_plVars(Poll(r)) /\ WF_plVars(OtherRead(r) \/ OtherFails(r))

-----------------------------------------------------------------------------
(* Properties.                                                              *)

\* usePolledResource.ts:48, 64-81: a screen that has loaded without an error shows
\* what its address names.  The abort of the cleanup is what makes that so, and
\* only for the read of the effect: a read of the timer or of a reload that was
\* under way at the navigation, or whose write was, can still put the former
\* target on the screen.
ShownIsCurrentOrRacing ==
    effect = NoRead /\ ~failed /\ data.target # target => data.late

\* MonitorDetailPage.tsx:78-94, MonitorsPage.tsx:168-212, SettingsPage.tsx:82-111,
\* 311-332: once a write was confirmed and read back, the page does not show the
\* state from before it, unless a read that was already under way when a reload
\* started settles after it and brings it back until the next poll.  A reload of a
\* list may itself be such a read, when the reload of another row overtakes it.
OwnWriteStays ==
    data.target # NoTarget /\ data.version < saved[data.target] => data.late

\* usePolledResource.ts:76: with an interval, failures and late answers only last
\* so long: when nothing changes any more the screen comes to show the present
\* state of its target, without an error.
ShownEventuallyCurrent ==
    polls => <>[](target # NoTarget =>
                  /\ data.target = target /\ data.version = version[target]
                  /\ ~failed /\ ~loading)
=============================================================================
