------------------------------ MODULE ItemTexts ------------------------------
(***************************************************************************)
(* The other items an entry carries as text: the watched processes, the    *)
(* freezing directories, infod about itself (src/libutil/                  *)
(* ProcessWatchInfo.c, FreezeInfo.c, InfodDebugInfo.c), and the economy    *)
(* and migration items, which other daemons write as XML (EcoInfo.c,       *)
(* JMigrateInfo.c).                                                        *)
(*                                                                         *)
(* A text is the sequence of its tags, as in Usage; the attribute of a tag *)
(* is here the sequence of its pairs <<name, value>>.  A document is the   *)
(* sequence of the children of its root.                                   *)
(***************************************************************************)
EXTENDS Usage

LOCAL INSTANCE SequencesExt

CONSTANTS
  Cut,       \* names that have a character in them that ends a tag
  Word,      \* the integers from which sizes are taken for negative
  Bad,       \* a value that is no number, or no known one
  Unset      \* what an entry that was not cleared holds

ASSUME ItemTextsAssumption == Word \in Nat

Blank == "blank"   \* a string that was not given

-----------------------------------------------------------------------------
(***************************************************************************)
(* ProcessWatchInfo.c                                                      *)
(***************************************************************************)
pw_status_str ==
  {"no info", "no pid file", "error pid file", "error no pid", "error", "no proc", "ok"}

\* A process file is absent, not to be opened, empty, or says a number or something else.
checkProcPidFile(f, alive, forbidden, ent) ==
  CASE f.kind = "absent" -> [ent EXCEPT !.stat = "no pid file"]
    [] f.kind \in {"closed", "empty"} -> [ent EXCEPT !.stat = "error pid file"]
    [] f.kind = "words" -> [ent EXCEPT !.stat = "error no pid"]
    [] OTHER -> [ent EXCEPT !.pid = f.pid,
                            !.stat = IF f.pid \in forbidden THEN "error"
                                     ELSE IF f.pid \in alive THEN "ok" ELSE "no proc"]

procwatch_pim_update(arr, files, alive, forbidden) ==
  [i \in DOMAIN arr |-> checkProcPidFile(files[i], alive, forbidden, arr[i])]

writeProcWatchInfo(arr) ==
  LET tag(e) == Short("proc", <<<<"name", e.name>>, <<"pid", e.pid>>, <<"stat", e.stat>>>>)
  IN  IF arr = <<>> THEN <<>>
      ELSE <<Open("proc-watch", None)>> \o [i \in DOMAIN arr |-> tag(arr[i])] \o <<Close("proc-watch")>>

\* A value in quotes ends at the first character that could end the tag.
get_tag_attr(a) == ~(a[1] = "name" /\ a[2] \in Cut)

\* What cannot be taken is left as it was, and read on.
add_proc_attr(ent, a) ==
  CASE a[1] = "name" -> [ent EXCEPT !.name = a[2]]
    [] a[1] = "pid" /\ a[2] >= 0 -> [ent EXCEPT !.pid = a[2]]
    [] a[1] = "stat" /\ a[2] \in pw_status_str -> [ent EXCEPT !.stat = a[2]]
    [] OTHER -> ent

get_proc_entry(tag) ==
  FoldLeft(add_proc_attr, [name |-> Blank, pid |-> 0, stat |-> "no info"], tag.attr)

\* As many entries as there is room for; what comes after them has to be the end.
getProcWatchInfo(text, size) ==
  LET entry(i) == i <= size /\ i + 1 \in DOMAIN text /\ Is(<<text[i + 1]>>, "proc", {"open", "short"})
      fine(i) == \A j \in DOMAIN text[i + 1].attr : get_tag_attr(text[i + 1].attr[j])
      n == CHOOSE k \in 0 .. size : ~entry(k + 1) /\ \A i \in 1 .. k : entry(i)
      ok == /\ size > 0 /\ Is(text, "proc-watch", {"open", "short"})
            /\ \A i \in 1 .. n : fine(i)
            /\ n + 2 \in DOMAIN text /\ Is(<<text[n + 2]>>, "proc-watch", {"close"})
  IN  IF ok THEN [ok |-> TRUE, arr |-> [i \in 1 .. n |-> get_proc_entry(text[i + 1])]]
            ELSE [ok |-> FALSE, arr |-> <<>>]

-----------------------------------------------------------------------------
(***************************************************************************)
(* FreezeInfo.c and InfodDebugInfo.c                                       *)
(***************************************************************************)
\* Sizes are unsigned and are written as if they were not.
Signed(n) == IF n < Word THEN n ELSE n - 2 * Word

writeFreezeInfo(fi) ==
  <<Short("freeze-info", <<<<"stat", fi.stat>>, <<"total", Signed(fi.total)>>, <<"free", Signed(fi.free)>>>>)>>

add_freeze_info_attr(fi, a) ==
  CASE a[1] = "stat" /\ a[2] \in {"init", "error", "ok"} -> [fi EXCEPT !.stat = a[2]]
    [] a[1] = "total" /\ a[2] >= 0 -> [fi EXCEPT !.total = a[2]]
    [] a[1] = "free" /\ a[2] >= 0 -> [fi EXCEPT !.free = a[2]]
    [] OTHER -> fi

\* fi is what the reader brings along.
getFreezeInfo(text, fi) ==
  IF Is(text, "freeze-info", {"short"})
  THEN [ok |-> TRUE, fi |-> FoldLeft(add_freeze_info_attr, fi, Head(text).attr)]
  ELSE [ok |-> FALSE, fi |-> fi]

\* idbg_pim_get: how many children, and within the tag for how long infod has run.
writeInfodDebugInfo(idbg) ==
  <<Open("infod-debug", <<<<"nchild", idbg.children>>>>), Open(idbg.uptime, <<>>), Close("infod-debug")>>

getInfodDebugInfo(text, idbg) ==
  LET children == Head(text).attr[1][2]
      read == [idbg EXCEPT !.children = IF children >= 0 THEN children ELSE @]
  IN  IF ~Is(text, "infod-debug", {"open"}) THEN [ok |-> FALSE, idbg |-> idbg]
      ELSE IF text[2].tag < 0 THEN [ok |-> FALSE, idbg |-> read]
      ELSE [ok |-> Is(<<text[3]>>, "infod-debug", {"close"}), idbg |-> [read EXCEPT !.uptime = text[2].tag]]

-----------------------------------------------------------------------------
(***************************************************************************)
(* EcoInfo.c                                                               *)
(***************************************************************************)
Prices == {"on-time", "min-price", "curr-price", "next-price", "sched-price", "inc-price", "protect-time"}
Texts == {"user", "sched-host", "curr-host"}

NoEconomy == [e \in Prices \cup Texts \cup {"status"} |->
                IF e \in Prices THEN 0 ELSE IF e \in Texts THEN Blank ELSE "error"]

Legible(el) ==
  CASE el.name = "status" -> el.value \in {"on", "off", "home", "protected"}
    [] el.name \in Prices \cup Texts -> el.value # Bad
    [] OTHER -> TRUE

\* An error ends the reading; a value that cannot be read refuses the document.
fillEconomyInfo(s, el) ==
  IF ~s.ok \/ s.ended THEN s
  ELSE IF el.name = "error" THEN [s EXCEPT !.info["status"] = "error", !.ended = TRUE]
  ELSE IF ~Legible(el) THEN [s EXCEPT !.ok = FALSE]
  ELSE IF el.name \in DOMAIN s.info THEN [s EXCEPT !.info[el.name] = el.value]
  ELSE s

parseEconomyInfo(doc) ==
  FoldLeft(fillEconomyInfo, [ok |-> TRUE, ended |-> FALSE, info |-> NoEconomy], doc)

-----------------------------------------------------------------------------
(***************************************************************************)
(* JMigrateInfo.c                                                          *)
(***************************************************************************)
VmFields == {"id", "home", "host", "client", "mem"}

\* An entry is not cleared before it is filled.
parseVMInfo(fields) ==
  LET vm(s, f) == IF ~s.ok \/ f.name \notin VmFields THEN s
                  ELSE IF f.value = Bad THEN [s EXCEPT !.ok = FALSE]
                  ELSE [s EXCEPT !.vm[f.name] = f.value]
  IN  FoldLeft(vm, [ok |-> TRUE, vm |-> [f \in VmFields |-> Unset]], fields)

\* There is room for as many machines as announced; if none were, none are read.
parseMachineTag(el) ==
  LET vms == SelectSeq(el.vms, LAMBDA v : v.name = "vm")
      add(s, v) == IF ~s.ok \/ Len(s.arr) = el.num THEN [s EXCEPT !.ok = FALSE]
                   ELSE LET one == parseVMInfo(v.fields)
                        IN  IF one.ok THEN [s EXCEPT !.arr = Append(@, one.vm)] ELSE [s EXCEPT !.ok = FALSE]
  IN  IF el.num < 0 THEN [ok |-> FALSE, arr |-> <<>>]
      ELSE IF el.num = 0 THEN [ok |-> TRUE, arr |-> <<>>]
      ELSE FoldLeft(add, [ok |-> TRUE, arr |-> <<>>], vms)

NoMigration == [ok |-> FALSE, stat |-> "error", arr |-> <<>>]

\* A host says what machines run on it, a machine what it is itself.
fillJMigrateInfo(type, doc) ==
  LET host == LET i == SelectInSeq(doc, LAMBDA el : el.name = "machines")
                  m == parseMachineTag(doc[i])
              IN  IF i = 0 THEN [ok |-> FALSE, stat |-> "host", arr |-> <<>>]
                  ELSE [ok |-> m.ok, stat |-> IF m.ok THEN "host" ELSE "error", arr |-> m.arr]
      self == LET m == parseVMInfo(doc)
              IN  [ok |-> m.ok, stat |-> "vm", arr |-> IF m.ok THEN <<m.vm>> ELSE <<>>]
  IN  CASE type = None -> [ok |-> TRUE, stat |-> "error", arr |-> <<>>]
        [] type = "host" -> host
        [] type = "vm" -> self
        [] OTHER -> NoMigration

=============================================================================
