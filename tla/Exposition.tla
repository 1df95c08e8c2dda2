----------------------------- MODULE Exposition -----------------------------
(***************************************************************************)
(* metrics.py: the page of /metrics, line by line as Metrics accumulates   *)
(* it.  HELP and TYPE of a family are one line here, and numbers are left  *)
(* out.                                                                    *)
(*                                                                         *)
(* Operators named X_Remark are deviations of the X that follows them.     *)
(***************************************************************************)
EXTENDS Integers, Sequences, FiniteSets, SequencesExt

Blank == [lines |-> <<>>, declared |-> {}]

Family(m, name) ==
  IF name \in m.declared THEN m
  ELSE [lines    |-> Append(m.lines, [kind |-> "family", name |-> name, label |-> ""]),
        declared |-> m.declared \cup {name}]

Sample(m, name, label) ==
  [m EXCEPT !.lines = Append(@, [kind |-> "sample", name |-> name, label |-> label])]

Gauge(m, name, label) == Sample(Family(m, name), name, label)

\* Each of names is a gauge of its own, in that order.
Gauges(m, names) == FoldLeft(LAMBDA acc, name : Gauge(acc, name, ""), m, names)

ThreadState ==
  <<"running", "sleeping", "uninterruptible", "stopped", "zombie", "other">>

Threads(m) ==
  Gauge(FoldLeft(LAMBDA acc, state : Sample(acc, "fileengine_threads", state),
                 Family(Gauge(m, "process_threads", ""), "fileengine_threads"), ThreadState),
        "fileengine_threads_not_waiting", "")

\* What becomes of reading the status, the open files and the threads in /proc: it is
\* read; the system refuses, and its gauges are left out; or what it holds cannot be
\* made sense of, and that raises.
Reading == [status : {"read", "unreadable", "raises"},
            fd     : {"read", "unreadable"},
            task   : {"read", "unreadable", "raises"}]

\* process_metrics, as far as it comes: render drops what it raises.
ProcessMetrics(m, reading) ==
  LET memory  == IF reading.status = "read" THEN Gauge(m, "process_resident_memory_bytes", "")
                 ELSE m
      files   == IF reading.fd = "read" THEN Gauge(memory, "process_open_fds", "") ELSE memory
      threads == IF reading.task = "read" THEN Threads(files) ELSE files
  IN  IF reading.status = "raises" THEN m
      ELSE IF reading.task = "raises" THEN files
      ELSE Gauge(threads, "fileengine_uptime_seconds", "")

\* _service_metrics; it may raise before any of its gauges.
ServiceGauges == <<"fileengine_mcp_tokens_active", "fileengine_mcp_tokens_expired_retained",
                   "fileengine_mcp_read_only">>

Collect_Silent(m, n) == Gauges(m, SubSeq(ServiceGauges, 1, n))

\* The collector has done n of its gauges when it raises, or is through.
Collect(m, n) ==
  LET done == Gauges(m, SubSeq(ServiceGauges, 1, n))
  IN  IF n = Len(ServiceGauges) THEN done
      ELSE Gauge(done, "fileengine_collector_failed", "_service_metrics")

Render(reading, n) ==
  Collect(ProcessMetrics(Gauge(Blank, "fileengine_build_info", "version"), reading), n).lines
-----------------------------------------------------------------------------
(* What a scraper asks of a page.                                          *)

Of(page, name) == {i \in DOMAIN page : page[i].name = name}

\* A family is declared once, before its samples, and its lines are together.
WellFormed(page) ==
  \A i \in DOMAIN page :
    LET mine == Of(page, page[i].name)
    IN  /\ Cardinality({j \in mine : page[j].kind = "family"}) = 1
        /\ \A j \in mine : \A k \in j..i : k \in mine
        /\ page[i].kind = "sample" => \E j \in mine : j < i /\ page[j].kind = "family"

Names(page) == {page[i].name : i \in DOMAIN page}

\* The build is on the page, and so are the service's gauges or word of their failure.
SaysWhatFailed(page) ==
  /\ "fileengine_build_info" \in Names(page)
  /\ ToSet(ServiceGauges) \subseteq Names(page) \/ "fileengine_collector_failed" \in Names(page)

\* The sources in /proc, and the families that the process has of each.
Proc == {"status", "fd", "task"}

FamiliesOf(source) ==
  CASE source = "status" -> {"process_resident_memory_bytes"}
    [] source = "fd"     -> {"process_open_fds"}
    [] source = "task"   -> {"process_threads", "fileengine_threads",
                             "fileengine_threads_not_waiting"}

\* A source that was read is on the page unless the status raised before it, and the
\* uptime unless anything did.  What else is missing, the page does not say.
ShowsWhatWasRead(page, reading) ==
  /\ reading.status # "raises" =>
       \A source \in Proc : reading[source] = "read" => FamiliesOf(source) \subseteq Names(page)
  /\ reading.status # "raises" /\ reading.task # "raises" =>
       "fileengine_uptime_seconds" \in Names(page)
=============================================================================
