----------------------------- MODULE DateTimes -----------------------------
(***************************************************************************)
(* Times on the command line (--mtime, --newer-mtime ...): a text becomes  *)
(* a DateTime, which becomes an instant, and is shown again as a text.     *)
(*                                                                         *)
(* Times are ticks, NANOS to a second; those of a clock are civil, without *)
(* their zone's offset.  Texts are what their digits say.  Relative texts  *)
(* ("1 day ago") are left out.                                             *)
(*                                                                         *)
(* External: jiff, whose timestamps have a second cut towards zero and a   *)
(* fraction of the same sign, and parse_datetime, whose fraction is never  *)
(* negative.  jiff reads a civil time and passes over an offset behind it. *)
(* The grammar that parse_datetime follows has no suffix [Region], and the *)
(* source does not say what becomes of one: it is refused, or read right.  *)
(***************************************************************************)
EXTENDS Integers

CONSTANTS NANOS,          \* ticks of a second, 10^9
          U32,            \* 2^32
          SystemOffset, TextOffset,    \* seconds, of the host and of a text
          MaxTimestamp,   \* jiff's timestamps are in -MaxTimestamp..MaxTimestamp
          PlatformMin, PlatformMax,    \* of SystemTime, in ticks; PlatformMin is a whole second
          Texts, Absent

VARIABLES text, value, instant,
          shown       \* the value that the text was made from

tvars == <<text, value, instant, shown>>

Epoch(neg, secs, nanos) == [kind |-> "epoch", neg |-> neg, secs |-> secs, nanos |-> nanos]
Clock(sep, zone, ticks) == [kind |-> "clock", sep |-> sep, zone |-> zone, ticks |-> ticks]
----------------------------------------------------------------------------
Abs(n) == IF n < 0 THEN -n ELSE n
as_second(t) == IF t >= 0 THEN t \div NANOS ELSE -((-t) \div NANOS)
subsec_nanosecond(t) == t - NANOS * as_second(t)
AsU32(n) == n % U32

resolve_civil(ticks) ==
  LET in(t) == Abs(t) <= MaxTimestamp
      timestamp == IF in(ticks - SystemOffset * NANOS) THEN ticks - SystemOffset * NANOS
                   ELSE IF in(ticks) THEN ticks
                   ELSE IF ticks >= 0 THEN MaxTimestamp ELSE -MaxTimestamp
  IN <<as_second(timestamp), AsU32(subsec_nanosecond(timestamp))>>

epoch_components(v) ==
  IF v.as = "Epoch" THEN <<v.secs, v.nanos>>
  ELSE IF v.as = "Zoned" THEN <<as_second(v.ticks), v.ticks % NANOS>>
  ELSE resolve_civil(v.ticks)

epoch_to_system_time_FractionDown(c) ==
  LET t == IF c[1] < 0 THEN c[1] * NANOS - c[2] ELSE c[1] * NANOS + c[2]
  IN IF t \in PlatformMin..PlatformMax THEN t ELSE Absent
\* The whole seconds are reached first, and then the fraction is added.
epoch_to_system_time(c) ==
  LET floor == c[1] * NANOS
      in(t) == t \in PlatformMin..PlatformMax
  IN IF in(floor) /\ in(floor + c[2]) THEN floor + c[2] ELSE Absent

has_timezone_marker(s) == s.zone \in {"Z", "region"} \/ (s.zone = "offset" /\ s.sep = "T")
OffsetOf(s) == IF s.zone = "none" THEN SystemOffset ELSE IF s.zone = "Z" THEN 0 ELSE TextOffset
ParseZoned(s) ==
  IF Abs(s.ticks - OffsetOf(s) * NANOS) <= MaxTimestamp
  THEN [as |-> "Zoned", ticks |-> s.ticks - OffsetOf(s) * NANOS] ELSE Absent

Read(s) ==
  IF s.kind = "epoch"
  THEN LET t == (IF s.neg THEN -1 ELSE 1) * (s.secs * NANOS + s.nanos)
       IN [as |-> "Epoch", secs |-> t \div NANOS, nanos |-> t % NANOS]
  ELSE IF has_timezone_marker(s) THEN ParseZoned(s)
  ELSE [as |-> IF s.sep = "none" THEN "Date" ELSE "Naive", ticks |-> s.ticks]

Refused == [as |-> "refused"]
Panic == [as |-> "panic"]
IsTime(v) == v # Absent /\ v # Refused /\ v # Panic
from_str(s) ==
  LET v == Read(s)
  IN IF v = Absent THEN Refused
     ELSE IF epoch_to_system_time(epoch_components(v)) = Absent THEN Refused ELSE v

\* How a text says a value: a negative fraction as its distance from the next
\* second, a civil time by its second, the offset of a zone as a region.
DisplaySeconds_NotReversed(v) ==
  IF v.secs < 0 /\ v.nanos > 0 THEN Epoch(TRUE, Abs(v.secs), NANOS - v.nanos)
  ELSE Epoch(v.secs < 0, Abs(v.secs), v.nanos)
DisplaySeconds(v) ==
  IF v.secs < 0 /\ v.nanos > 0 THEN Epoch(TRUE, Abs(v.secs) - 1, NANOS - v.nanos)
  ELSE Epoch(v.secs < 0, Abs(v.secs), v.nanos)
Display(v) ==
  IF v.as = "Epoch" THEN DisplaySeconds(v)
  ELSE IF v.as = "Zoned" THEN Clock("T", "region", v.ticks + TextOffset * NANOS)
  ELSE IF v.as = "Date" THEN Clock("none", "none", v.ticks)
  ELSE Clock(" ", "none", NANOS * (v.ticks \div NANOS))
----------------------------------------------------------------------------
TimesInit == text \in Texts /\ value = Absent /\ instant = Absent /\ shown = Absent

HasRegion(s) == s.kind = "clock" /\ s.zone = "region"
Parse == /\ value = Absent
         /\ \/ value' = from_str(text)
            \/ HasRegion(text) /\ value' = Refused
         /\ UNCHANGED <<text, instant, shown>>
to_system_time ==
  /\ IsTime(value) /\ instant = Absent
  /\ instant' = epoch_to_system_time(epoch_components(value))
  /\ value' = IF instant' = Absent THEN Panic ELSE value
  /\ UNCHANGED <<text, shown>>
Show == /\ IsTime(value) /\ instant # Absent /\ shown = Absent
        /\ text' = Display(value) /\ shown' = value
        /\ value' = Absent /\ instant' = Absent

TimesNext == Parse \/ to_system_time \/ Show
----------------------------------------------------------------------------
Meant(s) ==
  IF s.kind = "epoch" THEN (IF s.neg THEN -1 ELSE 1) * (s.secs * NANOS + s.nanos)
  ELSE s.ticks - OffsetOf(s) * NANOS
Reached(s) == Abs(Meant(s)) <= MaxTimestamp /\ Meant(s) \in PlatformMin..PlatformMax

\* A text that names its zone behind a T, or none, and no fraction of a second
\* before 1970, stands for the instant it names; it is refused, and does not
\* panic later, exactly when the platform does not reach that instant, civil
\* times beyond the library's range apart.  One with a region may be refused.
InstantsKept ==
  ~(text.kind = "clock" /\ text.zone = "offset" /\ text.sep # "T")
    /\ (text.kind = "epoch" \/ Meant(text) >= 0 \/ Meant(text) % NANOS = 0) =>
      /\ instant # Absent /\ Abs(Meant(text)) <= MaxTimestamp => instant = Meant(text)
      /\ value # Panic
      /\ value = Refused => ~Reached(text) \/ HasRegion(text)

\* "Returns this instant as (seconds, subsec_nanoseconds) such that the
\* represented instant equals UNIX_EPOCH + seconds * 1s + subsec_nanoseconds *
\* 1ns" (datetime.rs, epoch_components).
InstantIsText ==
  text.kind = "clock" /\ text.sep = "T" /\ Reached(text) /\ instant # Absent =>
    instant = Meant(text)

\* What a DateTime is shown as is read as the same DateTime again ("keep the
\* @<secs>.<nanos> Display round-trip"), a civil time with a fraction apart: the
\* fraction is not shown.  A zone is shown as a region, which may be refused.
EchoReadsBack ==
  shown # Absent /\ value # Absent
    /\ (shown.as = "Naive" => shown.ticks % NANOS = 0) =>
    value = shown \/ (shown.as = "Zoned" /\ value = Refused)
=============================================================================
