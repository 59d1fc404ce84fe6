---------------------------------- MODULE Ops --------------------------------
(* The operations endpoints: the metrics registry of ops/metrics.go with its   *)
(* text exposition, and the readiness checks of ops/health.go, read while they *)
(* change. Label values and amounts are small; rendering is left out except    *)
(* for the grouping of the series and their TYPE lines.                        *)
EXTENDS Naturals, Sequences, FiniteSets, FiniteSetsExt, SequencesExt

CONSTANTS
  Metrics,     \* metric names, numbers: their order is that of the text
  MaxUpdates,  \* bound on the updates of a behaviour
  Checks       \* names of health checks

Kinds == {"counter", "gauge", "summary"}
\* Attributes as a caller gives them: keys 1 and 2 in either order, or fewer.
Attrs == {<<>>, <<1>>, <<1, 2>>, <<2, 1>>}
Labels(attrs) == {attrs[i] : i \in 1 .. Len(attrs)}
LabelSets == {Labels(a) : a \in Attrs}

VARIABLES
  series,   \* m.series: by name and sorted labels, the kind, value and count
  kinds,    \* m.kinds: the kind a name is bound to
  updates,  \* by name and set of labels: how many updates there were, and their sum
  all,      \* the copy of the series that WriteText sorted, and ...
  text,     \* ... what it rendered of it: the TYPE lines and series, in order
  registered, \* h.checks
  failing,  \* the checks whose function returns an error, registered or not
  snapshot, \* Check's copy of h.checks, those still to run
  report,   \* its report so far: "idle", "healthy" or "unhealthy"
  steady,   \* the checks of the copy that have been failing since Check began
  blame     \* some check failed since then

metricsVars == <<series, kinds, updates, all, text>>
healthVars == <<registered, failing, snapshot, report, steady, blame>>
opsVars == <<metricsVars, healthVars>>

\* NewMetrics, NewHealth.
OpsInit ==
  /\ series = <<>> /\ kinds = [n \in Metrics |-> "none"] /\ updates = [x \in Metrics \X LabelSets |-> <<0, 0>>]
  /\ all = <<>> /\ text = <<>>
  /\ registered = {} /\ failing = {} /\ snapshot = {} /\ report = "idle"
  /\ steady = {} /\ blame = FALSE
-----------------------------------------------------------------------------
(* Metrics. *)

sortedAttrs(attrs) == SortSeq(attrs, <)

seriesKey(name, sorted) == <<name, sorted>>

\* fn of the instruments: a counter and a gauge add, Set sets, a summary counts.
Applied(s, op, v) ==
  CASE op = "add" -> [s EXCEPT !.value = @ + v]
    [] op = "set" -> [s EXCEPT !.value = v]
    [] op = "observe" -> [s EXCEPT !.count = @ + 1, !.value = @ + v]

\* update, under the lock; a name used as another kind panics and changes nothing.
update(kind, name, attrs, op, v) ==
  LET key == seriesKey(name, sortedAttrs(attrs))
      s   == IF key \in DOMAIN series THEN series[key]
             ELSE [kind |-> kind, value |-> 0, count |-> 0]
  IN  /\ MapThenSumSet(LAMBDA x : updates[x][1], DOMAIN updates) < MaxUpdates
      /\ kinds[name] \in {"none", kind}
      /\ kinds' = [kinds EXCEPT ![name] = kind]
      /\ series' = [k \in DOMAIN series \cup {key} |-> IF k = key THEN Applied(s, op, v) ELSE series[k]]
      /\ updates' = [updates EXCEPT ![<<name, Labels(attrs)>>] = <<@[1] + 1, @[2] + v>>]
      /\ UNCHANGED <<all, text, healthVars>>

\* Counter.Add, Gauge.Set and Add, Histogram.Observe and a span's End.
Instrument(name, attrs, v) ==
  \/ update("counter", name, attrs, "add", v)
  \/ \E op \in {"add", "set"} : update("gauge", name, attrs, op, v)
  \/ update("summary", name, attrs, "observe", v)

\* The order of the names and, for one name, of the texts of the labels: none is the
\* empty text, and where one list begins another the longer is first, "," < "}".
Before(a, b) ==
  \/ a[1] < b[1]
  \/ /\ a[1] = b[1] /\ a # b
     /\ \/ a[2] = <<>>
        \/ b[2] # <<>> /\ Head(a[2]) < Head(b[2])
        \/ b[2] # <<>> /\ Head(a[2]) = Head(b[2]) /\ Len(a[2]) > Len(b[2])

\* WriteText: the copy, sorted ...
WriteText ==
  /\ all = <<>> /\ text = <<>> /\ series # <<>>
  /\ all' = [i \in 1 .. Cardinality(DOMAIN series) |->
               LET k == SetToSortSeq(DOMAIN series, Before)[i] IN [key |-> k, s |-> series[k]]]
  /\ UNCHANGED <<series, kinds, updates, text, healthVars>>

\* ... and, after the unlock, the lines: TYPE whenever the name changes.
Render ==
  LET Line(i) == IF i = 1 \/ all[i].key[1] # all[i - 1].key[1]
                 THEN <<<<"TYPE", all[i].key[1], all[i].s.kind>>, <<"series", all[i].key[1], all[i].s.kind>>>>
                 ELSE <<<<"series", all[i].key[1], all[i].s.kind>>>>
  IN  /\ all # <<>>
      /\ text' = FlattenSeq([i \in 1 .. Len(all) |-> Line(i)])
      /\ all' = <<>>
      /\ UNCHANGED <<series, kinds, updates, healthVars>>

\* The answer is sent.
Sent == text # <<>> /\ text' = <<>> /\ UNCHANGED <<series, kinds, updates, all, healthVars>>
-----------------------------------------------------------------------------
(* Health. *)

\* Register and Deregister of a check.
SetCheck(c) ==
  /\ registered' = registered \cup {c} \/ registered' = registered \ {c}
  /\ UNCHANGED <<metricsVars, failing, snapshot, report, steady, blame>>

\* What a check probes turns bad or good.
Turns(c) ==
  /\ failing' = IF c \in failing THEN failing \ {c} ELSE failing \cup {c}
  /\ steady' = steady \cap failing'
  /\ blame' = (blame \/ (c \in failing' /\ report # "idle"))
  /\ UNCHANGED <<metricsVars, registered, snapshot, report>>

\* Check: the copy under the lock ...
CheckStarts ==
  /\ report = "idle"
  /\ snapshot' = registered
  /\ report' = "healthy"
  /\ steady' = registered \cap failing
  /\ blame' = (steady' # {})
  /\ UNCHANGED <<metricsVars, registered, failing>>

\* Mutant: the last check decides.
RunCheckLast(c) ==
  /\ c \in snapshot
  /\ snapshot' = snapshot \ {c}
  /\ report' = IF c \in failing THEN "unhealthy" ELSE "healthy"
  /\ UNCHANGED <<metricsVars, registered, failing, steady, blame>>

\* ... and the checks one by one; one that was taken out meanwhile still runs.
RunCheck(c) ==
  /\ c \in snapshot
  /\ snapshot' = snapshot \ {c}
  /\ report' = IF c \in failing THEN "unhealthy" ELSE report
  /\ UNCHANGED <<metricsVars, registered, failing, steady, blame>>

\* handleReadiness answers 200 or 503.
Answered ==
  /\ report # "idle" /\ snapshot = {}
  /\ report' = "idle" /\ steady' = {} /\ blame' = FALSE
  /\ UNCHANGED <<metricsVars, registered, failing, snapshot>>

MetricsNext ==
  \/ \E n \in Metrics, a \in Attrs, v \in {1, 2} : Instrument(n, a, v)
  \/ WriteText \/ Render \/ Sent

HealthNext ==
  \/ \E c \in Checks : RunCheck(c) \/ SetCheck(c) \/ Turns(c)
  \/ CheckStarts \/ Answered
-----------------------------------------------------------------------------
(* Properties. *)

Lines(what, n) == {i \in 1 .. Len(text) : text[i][1] = what /\ text[i][2] = n}

\* The exposition is well formed, whatever is updated while it is written: a name
\* has at most one TYPE line, it precedes the name's series, and they are of its kind.
ExpositionValid == \A n \in Metrics : \A i \in Lines("series", n) :
  \E t \in Lines("TYPE", n) : Lines("TYPE", n) = {t} /\ t < i /\ text[t][3] = text[i][3]

\* Updates with the same labels meet in one series, in whatever order the caller gives
\* the labels: the count of a summary and the total of a counter miss none.
Counted == \A x \in DOMAIN updates :
  LET mine == {k \in DOMAIN series : k[1] = x[1] /\ Labels(k[2]) = x[2]}
  IN  updates[x][1] # 0 => \E k \in mine :
        /\ mine = {k}
        /\ kinds[x[1]] = "summary" => series[k].count = updates[x][1]
        /\ kinds[x[1]] \in {"summary", "counter"} => series[k].value = updates[x][2]

\* Readiness: a check that was registered when Check began and fails all through it
\* makes the report unhealthy, even when it is taken out meanwhile, and a report is
\* unhealthy only when a check failed during it.
ReportTells ==
  report # "idle" /\ snapshot = {} =>
    /\ steady # {} => report = "unhealthy"
    /\ report = "unhealthy" => blame

\* What the system says of itself is true, though it is written from a copy while
\* updates, registrations and failures go on (writeTo, update, Check).
OpsTell == ExpositionValid /\ Counted /\ ReportTells
=============================================================================
