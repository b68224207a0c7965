----------------------------- MODULE LoggerSetup -----------------------------
(***************************************************************************)
(* What the logger sketches do before they log: adcInit sets the clock of  *)
(* the ADC and the timer that starts it, createBinFile finds a name.       *)
(***************************************************************************)
EXTENDS Integers, Sequences, SequencesExt, FiniteSetsExt

-----------------------------------------------------------------------------
(* adcInit.  Times are in clocks of the CPU.                               *)
MIN_ADC_CYCLES == 15
ISR_TIMER0 == 160
ISR_SETUP_ADC(pins) == IF pins > 1 THEN 100 ELSE 0
\* With less than ISR_TIMER0 the unsigned difference wraps: negative for one pin, huge for more.
adcCycles(ticks, pins) ==
  IF ticks >= ISR_TIMER0 THEN (ticks - ISR_TIMER0) \div pins - ISR_SETUP_ADC(pins)
  ELSE IF pins = 1 THEN -1 ELSE 2 ^ 24
\* The slowest ADC clock that is fast enough.
adps(ticks, pins) ==
  LET enough == {a \in 1 .. 7 : adcCycles(ticks, pins) >= MIN_ADC_CYCLES * 2 ^ a} IN
  Max(enough \cup {0})
TooHigh(cpu, a, eightBits) == cpu \div 2 ^ a > IF eightBits THEN 2000000 ELSE 1000000
\* To a multiple of the ADC clock.
Rounded(ticks, a) == ((ticks + 2 ^ (a - 1)) \div 2 ^ a) * 2 ^ a
\* The prescaler of timer 1: a counter of 16 bits.
\* Mutant: the prescaler 8 is used for too long.
ShiftLate(ticks) ==
  IF ticks < 65536 THEN 0 ELSE IF ticks < 65536 * 64 THEN 3
  ELSE IF ticks < 65536 * 256 THEN 8 ELSE IF ticks < 65536 * 1024 THEN 10 ELSE -1
Shift(ticks) ==
  IF ticks < 65536 THEN 0 ELSE IF ticks < 65536 * 8 THEN 3 ELSE IF ticks < 65536 * 64 THEN 6
  ELSE IF ticks < 65536 * 256 THEN 8 ELSE IF ticks < 65536 * 1024 THEN 10 ELSE -1
Refused == [adps |-> 0, shift |-> 0, icr1 |-> 0, interval |-> 0]
Timer(ticks, a) ==
  LET s == Shift(ticks) IN
  IF s < 0 THEN Refused
  ELSE [adps |-> a, shift |-> s, icr1 |-> (ticks \div 2 ^ s - 1) % 65536, interval |-> (ticks \div 2 ^ s) * 2 ^ s]
\* AvrAdcLogger and AnalogBinLogger, which have room for maxPins.
adcInit(cpu, ticks, pins, eightBits, round, maxPins) ==
  LET a == adps(ticks, pins) IN
  IF TooHigh(cpu, a, eightBits) \/ pins > maxPins THEN Refused
  ELSE Timer(IF round THEN Rounded(ticks, a) ELSE ticks, a)
AvrAdcInit(cpu, ticks, pins, eightBits, round) ==
  adcInit(cpu, ticks, pins, eightBits, round, IF eightBits THEN 50 ELSE 30)
AnalogBinInit(cpu, ticks, pins, eightBits, round) == adcInit(cpu, ticks, pins, eightBits, round, 123)

\* The timer counts the interval that the log says, which is the one asked for but for half an
\* ADC clock and less than one count; the conversions of all pins fit in it, and a slower ADC
\* clock would be too slow.  Intervals shorter than ISR_TIMER0 are left out: with several pins the
\* sketch accepts them, though no ADC is so fast.
SamplesInTime(cpu, ticks, pins, eightBits, round) ==
  LET t == AvrAdcInit(cpu, ticks, pins, eightBits, round)
      clock == 2 ^ t.adps
      work(a) == ISR_TIMER0 + pins * (ISR_SETUP_ADC(pins) + MIN_ADC_CYCLES * 2 ^ a)
  IN /\ AnalogBinInit(cpu, ticks, pins, eightBits, round) = t
     /\ t # Refused /\ ticks >= ISR_TIMER0 =>
          /\ (t.icr1 + 1) * 2 ^ t.shift = t.interval
          /\ round => t.interval % clock = 0
          /\ t.interval <= ticks + clock \div 2 /\ t.interval > ticks - clock \div 2 - 2 ^ t.shift
          /\ t.interval + clock \div 2 + 2 ^ t.shift > work(t.adps)
          /\ t.adps < 7 => ticks < work(t.adps + 1)
     /\ t = Refused =>
          \/ ticks < ISR_TIMER0 \/ ticks >= 65536 * 1024 - 64
          \/ \A a \in 1 .. 7 : ticks < work(a) \/ TooHigh(cpu, a, eightBits)

-----------------------------------------------------------------------------
(* The name of a log: digits before the dot are counted up till no file    *)
(* has it.  Empty if there is none.                                        *)

\* createBinFile of AvrAdcLogger and ExFatLogger: from the last digit to the left.
Counted(digits) ==
  LET p == Max({i \in DOMAIN digits : digits[i] # 9} \cup {0}) IN
  IF p = 0 THEN <<>> ELSE [i \in DOMAIN digits |-> IF i < p THEN digits[i] ELSE IF i = p THEN digits[i] + 1 ELSE 0]
RECURSIVE createBinFile(_, _)
createBinFile(digits, exists) ==
  IF digits \notin exists THEN digits
  ELSE IF Counted(digits) = <<>> THEN <<>> ELSE createBinFile(Counted(digits), exists)
\* logData of AnalogBinLogger: two digits.
CountedTwo(d) == IF d[2] # 9 THEN <<d[1], d[2] + 1>> ELSE IF d[1] = 9 THEN <<>> ELSE <<d[1] + 1, 0>>
RECURSIVE UnusedName(_, _)
UnusedName(digits, exists) ==
  IF digits \notin exists THEN digits
  ELSE IF CountedTwo(digits) = <<>> THEN <<>> ELSE UnusedName(CountedTwo(digits), exists)

ToNumber(digits) == FoldLeft(LAMBDA n, d : 10 * n + d, 0, digits)
Digits(n) == <<n \div 10, n % 10>>
\* The next free number, never one that exists; there is a name as long as a number is free.
NextFree(n, exists) ==
  LET name == createBinFile(Digits(n), {Digits(k) : k \in exists})
      free == {k \in n .. 99 : k \notin exists}
  IN /\ UnusedName(Digits(n), {Digits(k) : k \in exists}) = name
     /\ IF free = {} THEN name = <<>> ELSE name # <<>> /\ ToNumber(name) = Min(free)
=============================================================================
