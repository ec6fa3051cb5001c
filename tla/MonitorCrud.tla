----------------------------- MODULE MonitorCrud -----------------------------
(***************************************************************************)
(* HandleCrudCommands (monitors/handle_crud.go): chifra monitors --delete, *)
(* --undelete, --remove or --decache over a list of addresses.  The first  *)
(* loop checks every address (and, for --decache, does all the work); the  *)
(* second loop applies the command.  Commands run one after another on the *)
(* same monitors, and HandleList (handle_list.go) may run between them.  *)
(*                                                                         *)
(* The monitor package (Delete, UnDelete, Remove, IsDeleted, Decache) is   *)
(* not in this snapshot.  A monitor is "absent" (no file), "live" or       *)
(* "deleted" (marked); Remove of a deleted monitor either removes it or    *)
(* fails, and its (wasRemoved, err) answer is a choice over RemoveOutcomes. *)
(***************************************************************************)
EXTENDS Integers, Sequences, FiniteSets

CONSTANTS
  Addrs,          \* the addresses
  Commands,       \* the flag sets a command may carry
  RemoveOutcomes, \* answers of m.Remove(): "ok" (true, nil), "err" (false, err), "quiet" (false, nil)
  CacheItems,     \* bound on the cached items of one monitor
  MaxCmds         \* bound on the commands run

ASSUME RemoveOutcomes \subseteq {"ok", "err", "quiet"}

VARIABLES
  mon,      \* mon[a]: "absent", "live" or "deleted"
  cache,    \* cache[a]: cached items of a's monitor
  flags,    \* the running command's flags
  list,     \* opts.Addrs
  testMode, \* opts.Globals.TestMode
  pc,       \* "idle", "check" (first loop), "apply" (second loop)
  i,        \* the loop's index into list
  before,   \* mon when the command started
  result,   \* the command's outcome: "none", "ok", "usage", "err", "panic"
  cmds,     \* commands started
  shown,    \* the monitors the last --list streamed
  errs      \* the addresses the last --list reported as not monitored

vars == <<mon, cache, flags, list, testMode, pc, i, before, result, cmds, shown, errs>>

Lists == {<<a>> : a \in Addrs} \cup {<<a, b>> : a, b \in Addrs}

Init ==
  /\ mon \in [Addrs -> {"absent", "live", "deleted"}]
  /\ cache \in [Addrs -> 0 .. CacheItems]
  /\ flags = {}
  /\ list = <<>>
  /\ testMode \in BOOLEAN
  /\ pc = "idle"
  /\ i = 0
  /\ before = mon
  /\ result = "none"
  /\ cmds = 0
  /\ shown = {}
  /\ errs = <<>>

\* A new invocation of HandleCrudCommands.
Start ==
  /\ pc = "idle"
  /\ cmds < MaxCmds
  /\ \E f \in Commands, l \in Lists :
       /\ flags' = f
       /\ list' = l
  /\ pc' = "check"
  /\ i' = 1
  /\ before' = mon
  /\ result' = "none"
  /\ cmds' = cmds + 1
  /\ UNCHANGED <<mon, cache, testMode, shown, errs>>

\* The command returns.
Return(r) ==
  /\ result' = r
  /\ pc' = "idle"
  /\ UNCHANGED <<shown, errs>>

\* The monitor package's m.Delete(), and the monitor left by m.Remove()
\* after answering out.  Neither touches a monitor without a file.
Deleted(st) == IF st = "absent" THEN "absent" ELSE "deleted"
Removed(st, out) == IF out = "ok" THEN "absent" ELSE st

\* The first loop: no monitor file.
CheckMissing ==
  /\ pc = "check" /\ i <= Len(list)
  /\ mon[list[i]] = "absent"
  /\ Return("usage")
  /\ UNCHANGED <<mon, cache, flags, list, testMode, i, before, cmds>>

\* --decache in test mode returns at the first address.
DecacheTestMode ==
  /\ pc = "check" /\ i <= Len(list)
  /\ mon[list[i]] # "absent"
  /\ "decache" \in flags /\ testMode
  /\ Return("ok")
  /\ UNCHANGED <<mon, cache, flags, list, testMode, i, before, cmds>>

\* --decache: m.Decache visits the cache and stops at its first error,
\* having removed some items.
DecacheFail ==
  /\ pc = "check" /\ i <= Len(list)
  /\ mon[list[i]] # "absent"
  /\ "decache" \in flags /\ ~testMode
  /\ \E left \in 0 .. cache[list[i]] : cache' = [cache EXCEPT ![list[i]] = left]
  /\ Return("err")
  /\ UNCHANGED <<mon, flags, list, testMode, i, before, cmds>>

\* --decache: m.Decache visits the whole cache; processorFunc drops
\* os.Remove's error, so any of the items may survive the visit.  Then
\* m.Delete() and m.Remove(); whatever Remove answers, the loop goes on.
DecacheOne ==
  /\ pc = "check" /\ i <= Len(list)
  /\ mon[list[i]] # "absent"
  /\ "decache" \in flags /\ ~testMode
  /\ \E left \in 0 .. cache[list[i]] : cache' = [cache EXCEPT ![list[i]] = left]
  /\ \E out \in RemoveOutcomes :
       /\ mon' = [mon EXCEPT ![list[i]] = Removed("deleted", out)]
       /\ IF out = "quiet"                   \* err.Error() on a nil err
          THEN Return("panic") /\ UNCHANGED i
          ELSE i' = i + 1 /\ UNCHANGED <<pc, result, shown, errs>>
  /\ UNCHANGED <<flags, list, testMode, before, cmds>>

(* Mutation of Rejected: --remove of a monitor that is not deleted is let  *)
(* through.                                                                *)
RejectedNoRemoveCheck(f, st) ==
  \/ "undelete" \in f /\ st # "deleted"
  \/ /\ ~({"delete", "remove"} \subseteq f)
     /\ "delete" \in f /\ st = "deleted"

\* The first loop's tests for the other commands, in the code's order.
Rejected(f, st) ==
  \/ "undelete" \in f /\ st # "deleted"
  \/ /\ ~({"delete", "remove"} \subseteq f)
     /\ \/ "delete" \in f /\ st = "deleted"
        \/ "remove" \in f /\ st # "deleted"

\* The first loop: the address fails its test.
CheckReject ==
  /\ pc = "check" /\ i <= Len(list)
  /\ mon[list[i]] # "absent"
  /\ "decache" \notin flags
  /\ Rejected(flags, mon[list[i]])
  /\ Return("usage")
  /\ UNCHANGED <<mon, cache, flags, list, testMode, i, before, cmds>>

(* Mutation of CheckPass: the two loops merged, so each address is        *)
(* changed as soon as it passes its test.                                  *)
CheckPassApplying ==
  /\ pc = "check" /\ i <= Len(list)
  /\ mon[list[i]] # "absent"
  /\ "decache" \notin flags
  /\ ~Rejected(flags, mon[list[i]])
  /\ mon' = [mon EXCEPT ![list[i]] =
               IF "undelete" \in flags THEN "live" ELSE Deleted(mon[list[i]])]
  /\ i' = i + 1
  /\ UNCHANGED <<cache, flags, list, testMode, pc, before, result, cmds, shown, errs>>

\* The first loop: the address passes its test.
CheckPass ==
  /\ pc = "check" /\ i <= Len(list)
  /\ mon[list[i]] # "absent"
  /\ "decache" \notin flags
  /\ ~Rejected(flags, mon[list[i]])
  /\ i' = i + 1
  /\ UNCHANGED <<mon, cache, flags, list, testMode, pc, before, result, cmds, shown, errs>>

\* The first loop ends: --decache returns, the others go to the second loop.
EndCheck ==
  /\ pc = "check" /\ i > Len(list)
  /\ IF "decache" \in flags
     THEN Return("ok") /\ UNCHANGED i
     ELSE pc' = "apply" /\ i' = 1 /\ UNCHANGED <<result, shown, errs>>
  /\ UNCHANGED <<mon, cache, flags, list, testMode, before, cmds>>

\* The second loop: UnDelete, or Delete and/or Remove, of one address.
ApplyOne ==
  /\ pc = "apply" /\ i <= Len(list)
  /\ LET a == list[i]
         st == IF "delete" \in flags THEN Deleted(mon[a]) ELSE mon[a]
     IN IF "undelete" \in flags
        THEN /\ mon' = [mon EXCEPT ![a] = IF mon[a] = "absent" THEN "absent" ELSE "live"]
             /\ i' = i + 1 /\ UNCHANGED <<pc, result, shown, errs>>
        ELSE IF "remove" \in flags
        THEN \E out \in RemoveOutcomes :
               /\ mon' = [mon EXCEPT ![a] = Removed(st, out)]
               /\ IF out = "quiet"
                  THEN Return("panic") /\ UNCHANGED i
                  ELSE i' = i + 1 /\ UNCHANGED <<pc, result, shown, errs>>
        ELSE /\ mon' = [mon EXCEPT ![a] = st]
             /\ i' = i + 1 /\ UNCHANGED <<pc, result, shown, errs>>
  /\ UNCHANGED <<cache, flags, list, testMode, before, cmds>>

EndApply ==
  /\ pc = "apply" /\ i > Len(list)
  /\ Return("ok")
  /\ UNCHANGED <<mon, cache, flags, list, testMode, i, before, cmds>>

\* HandleList's filter over GetMonitorMap's array: a monitor is in the
\* array when its file exists (deleted ones too, the mark being inside
\* the file), and is streamed when no address was given or its address
\* is one of opts.Addrs.
Listed(l) ==
  {a \in Addrs : mon[a] # "absent" /\ (l = <<>> \/ \E k \in DOMAIN l : l[k] = a)}

\* The errors HandleList sends first: one per entry of opts.Addrs that has
\* no entry in the monitor map, in the order given.
NotMonitored(l) == SelectSeq(l, LAMBDA a : mon[a] = "absent")

\* chifra monitors --list [addrs]: reads the monitors, changes none, and
\* returns StreamMany's answer.
HandleList ==
  /\ pc = "idle"
  /\ cmds < MaxCmds
  /\ \E l \in Lists \cup {<<>>} :
       /\ list' = l
       /\ shown' = Listed(l)
       /\ errs' = NotMonitored(l)
  /\ flags' = {"list"}
  /\ before' = mon
  /\ result' = "ok"
  /\ cmds' = cmds + 1
  /\ UNCHANGED <<mon, cache, testMode, pc, i>>

\* No command left to run.
Done ==
  /\ pc = "idle" /\ cmds = MaxCmds
  /\ UNCHANGED vars

Next ==
  \/ Start \/ HandleList
  \/ CheckMissing \/ DecacheTestMode \/ DecacheFail \/ DecacheOne
  \/ CheckReject \/ CheckPass \/ EndCheck
  \/ ApplyOne \/ EndApply
  \/ Done

Spec == Init /\ [][Next]_vars

----------------------------------------------------------------------------
TypeOK ==
  /\ mon \in [Addrs -> {"absent", "live", "deleted"}]
  /\ cache \in [Addrs -> 0 .. CacheItems]
  /\ flags \in Commands \cup {{}, {"list"}}
  /\ list \in Lists \cup {<<>>}
  /\ pc \in {"idle", "check", "apply"}
  /\ i \in 0 .. 3
  /\ before \in [Addrs -> {"absent", "live", "deleted"}]
  /\ result \in {"none", "ok", "usage", "err", "panic"}
  /\ cmds \in 0 .. MaxCmds
  /\ shown \subseteq Addrs
  /\ errs \in Seq(Addrs)

\* The states the comment's table allows after a command on a monitor in
\* state st: Delete marks, Undelete unmarks, Remove removes (or, when the
\* removal itself fails, leaves the monitor deleted).
Table(f, st) ==
  CASE "undelete" \in f -> {"live"}
    [] "remove" \in f -> {"absent", "deleted"}
    [] "delete" \in f -> {"deleted"}
    [] OTHER -> {st}

(* A command the first loop rejects changes no monitor: --delete,          *)
(* --undelete and --remove check every address before touching any, so a  *)
(* usage error for the last address leaves the first one as it was.       *)
AllOrNothing ==
  (pc = "idle" /\ result = "usage" /\ "decache" \notin flags) => mon = before

\* The Error cells of the comment's table, for a command with one of the
\* flags --delete, --undelete, --remove on a monitor that exists.
ErrorCell(f, st) ==
  \/ f = {"delete"} /\ st = "deleted"
  \/ f = {"undelete"} /\ st = "live"
  \/ f = {"remove"} /\ st = "live"

(* A command that succeeds started from no Error cell of the transition    *)
(* table in HandleCrudCommands' comment, for any address of its list       *)
(* (repeats included), and leaves each address in a state the table       *)
(* allows from the one it started in.  The first loop's tests at lines     *)
(* 86-100 must reject exactly the Error cells, in the code's order of      *)
(* undelete, delete+remove exemption, delete, remove.                      *)
TableRespected ==
  (pc = "idle" /\ result = "ok" /\ "decache" \notin flags) =>
    \A k \in DOMAIN list :
      /\ ~ErrorCell(flags, before[list[k]])
      /\ mon[list[k]] \in Table(flags, before[list[k]])

(* The command never panics: the log line after a failed m.Remove() calls  *)
(* err.Error(), which is safe only if Remove never answers (false, nil).   *)
NoPanic == result # "panic"


=============================================================================
