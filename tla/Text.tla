-------------------------------- MODULE Text --------------------------------
(***************************************************************************)
(* Text on its way between Java and JavaScript: jstring_to_utf8 and        *)
(* utf8_to_jstring of qjs_util.c, and the formatting of console messages   *)
(* in qjs_console.c.  Each of the three goes twice over its input or over  *)
(* a buffer whose size another pass fixed, so the passes must agree.  One  *)
(* conversion is in progress at a time; stage and i are its position.      *)
(*                                                                         *)
(* Java strings are sequences of UTF-16 code units, and so are JavaScript  *)
(* strings; either may hold surrogates that are not paired.                *)
(***************************************************************************)
EXTENDS Integers, SequencesExt

(* Largest values of a char, of a jchar, and of a code point: 17 planes. *)
MaxByte == 255
MaxUnit == 65535
MaxCodePoint == 17 * (MaxUnit + 1) - 1

CONSTANTS
  Units, MaxUnits,      (* code units in strings, bound of their length     *)
  Bytes, MaxBytes,      (* bytes of unknown origin, bound of their number   *)
  LogUnits, MaxArgs,    (* code units in arguments of console.log, and how  *)
                        (* many arguments; an argument has at most two      *)
  Steady                (* an argument of console.log converts to the same  *)
                        (* text both times; FALSE: its toString has state   *)

ASSUME TextAssumption ==
  /\ Units \subseteq 0..MaxUnit /\ LogUnits \subseteq 0..MaxUnit
  /\ Bytes \subseteq 0..MaxByte /\ Steady \in BOOLEAN
  /\ MaxUnits \in Nat /\ MaxBytes \in Nat /\ MaxArgs \in Nat

VARIABLES
  route,      (* where the text comes from                                  *)
  source,     (* the string, the bytes or the arguments it started as       *)
  stage, i,   (* the pass, and how much of its input it has consumed        *)
  byte_len,   (* byte_len of jstring_to_utf8, total of js_console_log       *)
  bytes,      (* written to the buffer of that size                         *)
  out         (* written to the jchar buffer of utf8_to_jstring             *)

textVars == <<route, source, stage, i, byte_len, bytes, out>>

TextInit ==
  /\ route = "none" /\ stage = "idle" /\ source = << >>
  /\ i = 0 /\ byte_len = 0 /\ bytes = << >> /\ out = << >>

replacement_codepoint == 65533

IsHigh(u) == u >= 55296 /\ u <= 56319
IsLow(u) == u >= 56320 /\ u <= 57343

-----------------------------------------------------------------------------
(* Code points as UTF-8 *)

(* Seeded fault: the boundary between two and three bytes is off by one. *)
utf8_len_short(cp) ==
  IF cp <= 127 THEN 1 ELSE IF cp <= 2048 THEN 2 ELSE IF cp <= 65535 THEN 3 ELSE 4

utf8_len(cp) ==
  IF cp <= 127 THEN 1 ELSE IF cp <= 2047 THEN 2 ELSE IF cp <= 65535 THEN 3 ELSE 4

(* Seeded fault: the upper bits are not masked off. *)
Trail_notMasked(bits) == 128 + bits

Trail(bits) == 128 + (bits % 64)

write_utf8(cp) ==
  IF cp <= 127 THEN <<cp>>
  ELSE IF cp <= 2047 THEN <<192 + (cp \div 64), Trail(cp)>>
  ELSE IF cp <= 65535 THEN <<224 + (cp \div 4096), Trail(cp \div 64), Trail(cp)>>
  ELSE <<240 + ((cp \div 4096) \div 64), Trail(cp \div 4096), Trail(cp \div 64), Trail(cp)>>

(* What a lead byte says: its bits, the bytes to follow, the least code     *)
(* point that needs so many.                                                *)
Lead(c) ==
  IF c <= 223 THEN [bits |-> c % 32, extra |-> 1, min_cp |-> 128]
  ELSE IF c <= 239 THEN [bits |-> c % 16, extra |-> 2, min_cp |-> 2048]
  ELSE [bits |-> c % 8, extra |-> 3, min_cp |-> 65536]

IsTrail(b) == b >= 128 /\ b <= 191

(* Every buffer ends in a NUL that its length does not count. *)
ByteAt(k) == IF k <= Len(bytes) THEN bytes[k] ELSE 0

(* Seeded fault: the bound is off by one. *)
Truncated_offByOne(j, extra, len) == j + extra > len + 1

Truncated(j, extra, len) == j + extra > len

(* Seeded fault: overlong forms are taken for what they spell. *)
Accepted_overlong(cp, min_cp) == cp <= MaxCodePoint /\ ~IsHigh(cp) /\ ~IsLow(cp)

Accepted(cp, min_cp) == cp >= min_cp /\ cp <= MaxCodePoint /\ ~IsHigh(cp) /\ ~IsLow(cp)

(* The result of the loop over the continuation bytes that follow index j.  *)
Decoded(lead, j) ==
  LET Add(cp, k) == cp * 64 + (ByteAt(j + k) % 64)
      one == Add(lead.bits, 1)
      two == IF lead.extra = 1 THEN one ELSE Add(one, 2)
      cp == IF lead.extra = 3 THEN Add(two, 3) ELSE two
  IN  IF Accepted(cp, lead.min_cp) THEN cp ELSE replacement_codepoint

(* read_utf8 at index i of len bytes: the code point, and the new index,    *)
(* which is after the first byte that is no continuation, that one included.*)
Read(cp, index) == [cp |-> cp, index |-> index]

read_utf8(len) ==
  LET c == ByteAt(i + 1)
      j == i + 1
  IN  IF c < 128 THEN Read(c, j)
      ELSE IF c < 192 \/ c > 247 \/ Truncated(j, Lead(c).extra, len)
      THEN Read(replacement_codepoint, j)
      ELSE LET bad == {k \in 1..Lead(c).extra : ~IsTrail(ByteAt(j + k))}
           IN  IF bad = {} THEN Read(Decoded(Lead(c), j), j + Lead(c).extra)
               ELSE Read(replacement_codepoint,
                         j + (CHOOSE k \in bad : \A l \in bad : k <= l))

-----------------------------------------------------------------------------
(* jstring_to_utf8 *)

(* The next code point of the string, the same in both passes. *)
PairAt(s, k) == k + 1 < Len(s) /\ IsHigh(s[k + 1]) /\ IsLow(s[k + 2])

CodePoint(s, k) ==
  IF PairAt(s, k) THEN 65536 + (s[k + 1] - 55296) * 1024 + (s[k + 2] - 56320)
  ELSE IF IsHigh(s[k + 1]) \/ IsLow(s[k + 1]) THEN replacement_codepoint
  ELSE s[k + 1]

UnitsAt(s, k) == IF PairAt(s, k) THEN 2 ELSE 1

FromJava ==
  /\ stage = "idle"
  /\ \E s \in SeqOf(Units, MaxUnits) : source' = s
  /\ route' = "java" /\ stage' = "measure"
  /\ UNCHANGED <<i, byte_len, bytes, out>>

Measure ==
  /\ stage = "measure"
  /\ IF i < Len(source)
     THEN /\ byte_len' = byte_len + utf8_len(CodePoint(source, i))
          /\ i' = i + UnitsAt(source, i)
          /\ UNCHANGED stage
     ELSE i' = 0 /\ stage' = "write" /\ UNCHANGED byte_len
  /\ UNCHANGED <<route, source, bytes, out>>

(* Seeded fault: the second pass forgets that a pair is two code units. *)
Write_halfPair ==
  /\ stage = "write"
  /\ IF i < Len(source)
     THEN /\ bytes' = bytes \o write_utf8(CodePoint(source, i))
          /\ i' = i + 1
          /\ UNCHANGED stage
     ELSE i' = 0 /\ stage' = "read" /\ UNCHANGED bytes
  /\ UNCHANGED <<route, source, byte_len, out>>

(* The engine returns what it was given: QuickJS makes a string of the      *)
(* bytes and the same bytes of the string.                                  *)
Write ==
  /\ stage = "write"
  /\ IF i < Len(source)
     THEN /\ bytes' = bytes \o write_utf8(CodePoint(source, i))
          /\ i' = i + UnitsAt(source, i)
          /\ UNCHANGED stage
     ELSE i' = 0 /\ stage' = "read" /\ UNCHANGED bytes
  /\ UNCHANGED <<route, source, byte_len, out>>

-----------------------------------------------------------------------------
(* JavaScript strings *)

(* JS_ToCStringLen writes an unpaired surrogate like any other code point,  *)
(* in three bytes.                                                          *)
JS_ToCStringLen(s) ==
  FlattenSeq([k \in 1..Len(s) |->
    IF PairAt(s, k - 1) THEN write_utf8(CodePoint(s, k - 1))
    ELSE IF k > 1 /\ PairAt(s, k - 2) THEN << >> ELSE write_utf8(s[k])])

FromScript ==
  /\ stage = "idle"
  /\ \E s \in SeqOf(Units, MaxUnits) :
       /\ source' = s
       /\ bytes' = JS_ToCStringLen(s) /\ byte_len' = Len(bytes')
  /\ route' = "script" /\ stage' = "read"
  /\ UNCHANGED <<i, out>>

(* Bytes that are no UTF-8: a console message whose second pass wrote less  *)
(* than the first had counted ends in what malloc returned.                 *)
FromMemory ==
  /\ stage = "idle"
  /\ \E b \in SeqOf(Bytes, MaxBytes) :
       source' = b /\ bytes' = b /\ byte_len' = Len(b)
  /\ route' = "memory" /\ stage' = "read"
  /\ UNCHANGED <<i, out>>

-----------------------------------------------------------------------------
(* console.log and console.error *)

Texts == SeqOf(LogUnits, 2)

(* The text an argument converts to the second time. *)
Again(s) == IF Steady THEN {s} ELSE Texts

FromConsole ==
  /\ stage = "idle"
  /\ \E a \in SeqOf(Texts, MaxArgs) : source' = a
  /\ route' = "console" /\ stage' = "count"
  /\ UNCHANGED <<i, byte_len, bytes, out>>

(* Seeded fault: the spaces between arguments are not counted. *)
CountArg_noSpace ==
  /\ stage = "count"
  /\ IF i < Len(source)
     THEN /\ byte_len' = byte_len + Len(JS_ToCStringLen(source[i + 1]))
          /\ i' = i + 1 /\ UNCHANGED stage
     ELSE i' = 0 /\ stage' = "format" /\ UNCHANGED byte_len
  /\ UNCHANGED <<route, source, bytes, out>>

CountArg ==
  /\ stage = "count"
  /\ IF i < Len(source)
     THEN /\ byte_len' = byte_len + Len(JS_ToCStringLen(source[i + 1]))
                           + (IF i > 0 THEN 1 ELSE 0)
          /\ i' = i + 1 /\ UNCHANGED stage
     ELSE i' = 0 /\ stage' = "format" /\ UNCHANGED byte_len
  /\ UNCHANGED <<route, source, bytes, out>>

FormatArg ==
  /\ stage = "format"
  /\ IF i < Len(source)
     THEN /\ \E s \in Again(source[i + 1]) :
               bytes' = bytes \o (IF i > 0 THEN <<32>> ELSE << >>) \o JS_ToCStringLen(s)
          /\ i' = i + 1 /\ UNCHANGED stage
     ELSE i' = 0 /\ stage' = "read" /\ UNCHANGED bytes
  /\ UNCHANGED <<route, source, byte_len, out>>

-----------------------------------------------------------------------------
(* utf8_to_jstring *)

(* One code point as code units, in the one or two elements it gets. *)
JChars(cp) ==
  IF cp <= 65535 THEN <<cp>>
  ELSE <<55296 + ((cp - 65536) \div 1024), 56320 + ((cp - 65536) % 1024)>>

ReadPoint ==
  /\ stage = "read"
  /\ IF i < byte_len
     THEN LET r == read_utf8(byte_len) IN
            /\ out' = out \o JChars(r.cp)
            /\ i' = r.index
            /\ UNCHANGED stage
     ELSE stage' = "done" /\ UNCHANGED <<i, out>>
  /\ UNCHANGED <<route, source, byte_len, bytes>>

Done ==
  /\ stage = "done"
  /\ route' = "none" /\ stage' = "idle" /\ source' = << >>
  /\ i' = 0 /\ byte_len' = 0 /\ bytes' = << >> /\ out' = << >>

TextNext ==
  \/ FromJava \/ Measure \/ Write
  \/ FromScript \/ FromMemory
  \/ FromConsole \/ CountArg \/ FormatArg
  \/ ReadPoint \/ Done

TextSpec == TextInit /\ [][TextNext]_textVars

-----------------------------------------------------------------------------
(* Properties *)

(* Types; in particular no cast to char or jchar loses bits                 *)
(* (qjs_util.c:52-64, 189-193).                                             *)
TextTypeOK ==
  /\ route \in {"none", "java", "script", "memory", "console"}
  /\ stage \in {"idle", "measure", "write", "count", "format", "read", "done"}
  /\ i \in Nat /\ byte_len \in Nat
  /\ \A k \in 1..Len(bytes) : bytes[k] \in 0..MaxByte
  /\ \A k \in 1..Len(out) : out[k] \in 0..MaxUnit

(* The pass that fills a buffer never writes more than the pass that sized  *)
(* it had counted, and in the end exactly that: the bytes that are read are *)
(* bytes that were written (qjs_util.c:93, 118; qjs_console.c:57, 69).      *)
WritesFit ==
  /\ stage \in {"write", "format"} => Len(bytes) <= byte_len
  /\ stage \in {"read", "done"} => Len(bytes) = byte_len

(* utf8_to_jstring reads inside its input whatever the bytes are, and       *)
(* writes inside a buffer of one element per byte (qjs_util.c:156, 183).    *)
ReadsInside ==
  stage \in {"read", "done"} => i <= byte_len /\ Len(out) <= i

(* A text arrives as it was sent, with U+FFFD for every code unit that is   *)
(* an unpaired surrogate and for nothing else: strings from Java that the   *)
(* engine returns, strings from JavaScript, and console messages, whose     *)
(* arguments are joined by spaces (qjs_util.c:96-112, 173-197;              *)
(* qjs_console.c:60-68).                                                    *)
Paired(s, k) ==
  \/ IsHigh(s[k]) /\ k < Len(s) /\ IsLow(s[k + 1])
  \/ IsLow(s[k]) /\ k > 1 /\ IsHigh(s[k - 1])

Clean(s) ==
  [k \in 1..Len(s) |->
    IF (IsHigh(s[k]) \/ IsLow(s[k])) /\ ~Paired(s, k)
    THEN replacement_codepoint ELSE s[k]]

Joined(args) ==
  FlattenSeq([k \in 1..Len(args) |-> IF k = 1 THEN args[k] ELSE <<32>> \o args[k]])

TextArrives ==
  stage = "done" =>
    /\ route \in {"java", "script"} => out = Clean(source)
    /\ route = "console" => out = Clean(Joined(source))

(* Bytes that are no UTF-8 are never taken for text: what is read without   *)
(* a U+FFFD is what those bytes and no others spell, and what is read is    *)
(* always a string without unpaired surrogates (qjs_util.c:156-171).        *)
OnlyTextIsRead ==
  stage = "done" =>
    /\ out = Clean(out)
    /\ (\A k \in 1..Len(out) : out[k] # replacement_codepoint) => JS_ToCStringLen(out) = bytes

=============================================================================
