---------------------------- MODULE Propagation ----------------------------
(***************************************************************************)
(* propagation.c: a span context is injected into a carrier (a text map,   *)
(* HTTP headers or binary) by one process and extracted by another.  The   *)
(* carrier's callbacks may fail, headers arrive in any order and among     *)
(* others, a binary carrier may be cut short, and memory may be short.     *)
(*                                                                         *)
(* Ids are numbers of Width digits, and formatted and scanned as such;     *)
(* baggage values are texts (UriCodec); baggage keys are symbols, with     *)
(* their lower-case form.  The baggage of the injected context is what its *)
(* hash table is, a sequence of buckets; the one that is extracted is a    *)
(* map, which module Hashtable justifies.                                  *)
(***************************************************************************)
EXTENDS UriCodec, SequencesExt

CONSTANTS Keys, ToLower,   \* baggage keys and tolower of each
          EmptyKey,        \* the key "", whose header is the bare prefix
          NoValue,         \* of a key that is absent
          NoContext,       \* the null pointer to a context
          Base, Width,     \* digits of an id (16 and 16 in the code)
          IntMax,          \* the largest int (2^31 - 1)
          Sources,         \* contexts to inject, with the carrier's format
          Foreign,         \* carriers that come from elsewhere
          Extras,          \* headers that others add to a carrier
          FaultSets        \* which calls may fail in a run of the program

\* Texts are C strings, of characters other than 0.
Text == Seq(1 .. 255)

ASSUME KeyAssumption ==
  /\ EmptyKey \in Keys
  /\ ToLower \in [Keys -> Keys]
  /\ \A k \in Keys : ToLower[k] = EmptyKey <=> k = EmptyKey
ASSUME IntAssumption == IntMax \in Nat
ASSUME ValueAssumption == NoValue \notin Text
ASSUME WidthAssumption == Base \in Nat \ {0, 1} /\ Width \in Nat \ {0}
ASSUME FaultAssumption == FaultSets \subseteq SUBSET {"malloc", "write", "cut"}

VARIABLES format,    \* "text_map", "http_headers" or "binary"
          source,    \* the context to inject, or NoContext
          wire,      \* the carrier: headers, or the fields of a binary one
          faults,    \* which calls may fail
          pc,        \* where inject, and then extract, is
          code,      \* error_code
          bucket, entry,  \* of inject's loops
          injected,  \* what inject returned
          pending,   \* headers the reader has still to pass on
          pos,       \* number of fields read from a binary carrier
          ctx,       \* the context extract builds, or NoContext
          buffers,   \* key_buffer and value_buffer: "null", "live", "freed"
          after_debug,     \* was the debug header seen after the context's?
          decoding_errors, \* the counter
          crashed    \* did the process end?

vars == <<format, source, wire, faults, pc, code, bucket, entry, injected,
          pending, pos, ctx, buffers, after_debug, decoding_errors, crashed>>
sending == <<bucket, entry, injected>>
receiving == <<pending, pos, ctx, buffers, after_debug, decoding_errors>>
given == <<format, source, faults>>

Success == "success"
Corrupted == "span_context_corrupted"
Unknown == "unknown"

---------------------------------------------------------------------------
(* trace_id.c, span.c: ids as digits *)

Power[k \in Nat] == IF k = 0 THEN 1 ELSE Base * Power[k - 1]
Id == 0 .. Power[Width] - 1

\* The last k digits of a number; all of them without leading zeros ("%x");
\* all with zeros up to the width ("%016x").
LastDigits(n, k) == [i \in 1 .. k |-> (n \div Power[k - i]) % Base]
Hex(n) == LastDigits(n, Min({k \in 1 .. n + 1 : n < Power[k]}))
Padded(n) == LastDigits(n, Width)

MutTraceIdFormat(id) ==
  IF id.high = 0 THEN Hex(id.low) ELSE Hex(id.high) \o Hex(id.low)

TraceIdFormat(id) ==
  IF id.high = 0 THEN Hex(id.low) ELSE Hex(id.high) \o Padded(id.low)

\* All of a token must be digits; strtoull returns the largest id for a larger
\* number.
IsNumber(token) == \A i \in DOMAIN token : token[i] \in 0 .. Base - 1
Number(token) ==
  LET value[i \in 0 .. Len(token)] ==
        IF i = 0 THEN 0 ELSE Base * value[i - 1] + token[i]
  IN value[Len(token)]
Strtoull(token) == Min({Number(token), Power[Width] - 1})

TraceIdScans(token) == Len(token) <= 2 * Width /\ IsNumber(token)

HighLen(token) == IF Len(token) > Width THEN Len(token) - Width ELSE 0
TraceIdScan(token) ==
  [high |-> Strtoull(SubSeq(token, 1, HighLen(token))),
   low |-> Strtoull(SubSeq(token, HighLen(token) + 1, Len(token)))]

\* The tokens between colons: trace id, span id, flags.
ContextFormat(c) == <<TraceIdFormat(c.trace_id), Hex(c.span_id), Hex(c.flags)>>

\* A fourth token is not looked at.
ContextScans(tokens) ==
  /\ Len(tokens) >= 3
  /\ TraceIdScans(tokens[1])
  /\ IsNumber(tokens[2]) /\ IsNumber(tokens[3])

---------------------------------------------------------------------------
NoBaggage == [k \in Keys |-> NoValue]
EmptyContext ==
  [trace_id |-> [high |-> 0, low |-> 0], span_id |-> 0, flags |-> 0,
   debug_id |-> FALSE, baggage |-> NoBaggage]

AnyKey == CHOOSE k \in Keys : TRUE

\* Headers: the context, the debug id, a list of baggage, one baggage item
\* (a key with the prefix), and any other.  The text is the value as it is sent,
\* of a context and a list what is not in their tokens and items.
OtherHeader ==
  [kind |-> "other", key |-> AnyKey, text |-> <<>>, tokens |-> <<>>, items |-> <<>>]
DebugHeader == [OtherHeader EXCEPT !.kind = "debug"]
ContextHeader(tokens) == [OtherHeader EXCEPT !.kind = "context", !.tokens = tokens]
BaggageHeader(items) == [OtherHeader EXCEPT !.kind = "baggage", !.items = items]
ItemHeader(key, text) ==
  [OtherHeader EXCEPT !.kind = "prefix", !.key = key, !.text = text]

Items(c) == FlattenSeq(c.buckets)

\* The fields of a binary carrier: five, and four of each item.
FieldName(p) ==
  IF p <= 5 THEN <<"high", "low", "span_id", "flags", "num_baggage_items">>[p]
  ELSE <<"value", "key_len", "key", "value_len">>[((p - 5) % 4) + 1]

\* What jaeger_inject_into_binary writes, one callback each.  Of a length it
\* matters only whether length + 1 "fits" in 32 bits or "wraps" to 0.
BinaryFields(c) ==
  [p \in 1 .. 5 + 4 * Len(Items(c)) |->
     LET item == Items(c)[(p - 2) \div 4]
     IN CASE FieldName(p) = "high" -> c.trace_id.high
          [] FieldName(p) = "low" -> c.trace_id.low
          [] FieldName(p) = "span_id" -> c.span_id
          [] FieldName(p) = "flags" -> c.flags
          [] FieldName(p) = "num_baggage_items" -> Len(Items(c))
          [] FieldName(p) = "key" -> item[1]
          [] FieldName(p) = "value" -> item[2]
          [] OTHER -> "fits"]

---------------------------------------------------------------------------
(* What is injected, and what others write *)

TextFormats == {"text_map", "http_headers"}

IsContext(c) ==
  /\ c.trace_id \in [high : Id, low : Id]
  /\ c.span_id \in Id
  /\ c.flags \in 0 .. 255 /\ c.flags \in Id
  /\ c.buckets \in Seq(Seq(Keys \X Text)) /\ Len(Items(c)) <= IntMax
  /\ c.jaeger \in BOOLEAN

Header ==
  [kind : {"context", "debug", "baggage", "prefix", "other"}, key : Keys,
   text : Text, tokens : Seq(Seq(Nat)), items : Seq(Keys \X ({NoValue} \cup Text))]

\* Numbers have their width and keys are strings.
FieldFits(p, value) ==
  /\ p \in 1 .. 3 => value \in Id
  /\ p = 4 => value \in 0 .. 255
  /\ p = 5 => value \in 0 .. 2 * IntMax + 1
  /\ p > 5 /\ FieldName(p) = "key" => value \in Keys
IsBinary(w) ==
  /\ Len(w) \in Nat
  /\ w = [p \in 1 .. Len(w) |-> w[p]]
  /\ \A p \in 1 .. Len(w) : FieldFits(p, w[p])
CarrierFits(f, w) == IF f \in TextFormats THEN w \in Seq(Header) ELSE IsBinary(w)

ASSUME SourceAssumption ==
  \A s \in Sources : s.format \in TextFormats \cup {"binary"} /\ IsContext(s.context)
ASSUME ForeignAssumption ==
  \A f \in Foreign : f.format \in TextFormats \cup {"binary"} /\ CarrierFits(f.format, f.wire)
ASSUME ExtrasAssumption == Extras \subseteq Seq(Header)

Init ==
  /\ \/ \E s \in Sources : /\ format = s.format
                           /\ source = s.context
                           /\ wire = <<>>
                           /\ pc = "inject"
     \/ \E f \in Foreign : /\ format = f.format
                           /\ source = NoContext
                           /\ wire = f.wire
                           /\ pc = "deliver"
  /\ faults \in FaultSets
  /\ code = Success
  /\ bucket = 1 /\ entry = 1
  /\ injected = "no"
  /\ pending = {} /\ pos = 0
  /\ ctx = NoContext
  /\ buffers = [key |-> "null", value |-> "null"]
  /\ after_debug = FALSE
  /\ decoding_errors = 0
  /\ crashed = "no"

---------------------------------------------------------------------------
(* inject_text_map_helper *)

IsText == format \in TextFormats
Encoded(value) == IF format = "http_headers" THEN encode_uri_value(value) ELSE value
Decoded(value) ==
  IF format = "http_headers" THEN CString(decode_uri_value(value)) ELSE value

\* CHECK_SPAN_CONTEXT, in the tracer's wrappers.
InjectInvalid ==
  /\ pc = "inject"
  /\ ~source.jaeger
  /\ injected' = "invalid_span_context"
  /\ pc' = "done"
  /\ UNCHANGED <<given, wire, code, bucket, entry, receiving, crashed>>

Inject ==
  /\ pc = "inject"
  /\ source.jaeger
  /\ pc' = IF IsText THEN "context" ELSE "write"
  /\ UNCHANGED <<given, wire, code, sending, receiving, crashed>>

SetContext ==
  /\ pc = "context"
  /\ \/ /\ wire' = <<ContextHeader(ContextFormat(source))>>
        /\ code' = Success
     \/ /\ "write" \in faults
        /\ code' = Unknown
        /\ UNCHANGED wire
  /\ pc' = "bucket"
  /\ UNCHANGED <<given, sending, receiving, crashed>>

\* The outer loop ends when error_code is not success.
NextBucket ==
  /\ pc = "bucket"
  /\ IF bucket <= Len(source.buckets) /\ code = Success
     THEN pc' = "item" /\ UNCHANGED injected
     ELSE pc' = "deliver" /\ injected' = code
  /\ UNCHANGED <<given, wire, code, bucket, entry, receiving, crashed>>

\* The inner loop goes on after an error, and the next success replaces it.
SetItem ==
  LET item == source.buckets[bucket][entry]
  IN /\ pc = "item"
     /\ entry <= Len(source.buckets[bucket])
     /\ \/ /\ wire' = Append(wire, ItemHeader(item[1], Encoded(item[2])))
           /\ code' = Success
        \/ /\ faults \cap {"malloc", "write"} # {}
           /\ code' = Unknown
           /\ UNCHANGED wire
     /\ entry' = entry + 1
     /\ UNCHANGED <<given, pc, bucket, injected, receiving, crashed>>

BucketDone ==
  /\ pc = "item"
  /\ entry > Len(source.buckets[bucket])
  /\ bucket' = bucket + 1
  /\ entry' = 1
  /\ pc' = "bucket"
  /\ UNCHANGED <<given, wire, code, injected, receiving, crashed>>

\* jaeger_inject_into_binary returns at the first callback that fails.
WriteBinary ==
  LET fields == BinaryFields(source)
  IN /\ pc = "write"
     /\ IF Len(wire) = Len(fields)
        THEN pc' = "deliver" /\ injected' = Success /\ UNCHANGED wire
        ELSE \/ wire' = Append(wire, fields[Len(wire) + 1]) /\ UNCHANGED <<pc, injected>>
             \/ /\ "write" \in faults
                /\ pc' = "deliver" /\ injected' = Unknown
                /\ UNCHANGED wire
     /\ UNCHANGED <<given, code, bucket, entry, receiving, crashed>>

---------------------------------------------------------------------------
(* Delivery: other headers join, a binary carrier may be cut *)

Deliver ==
  /\ pc = "deliver"
  /\ IF IsText
     THEN \E extra \in Extras : wire' = wire \o extra
     ELSE \E n \in 0 .. Len(wire) : /\ n < Len(wire) => "cut" \in faults
                                    /\ wire' = SubSeq(wire, 1, n)
  /\ pc' = "extract"
  /\ code' = Success
  /\ UNCHANGED <<given, sending, receiving, crashed>>

---------------------------------------------------------------------------
(* Extraction *)

Fail(error) ==
  /\ code' = error
  /\ pc' = "cleanup"

\* extract_from_text_map_helper, jaeger_extract_from_binary: a new context.
Extract ==
  /\ pc = "extract"
  /\ \/ /\ ctx' = EmptyContext
        /\ pending' = IF IsText THEN DOMAIN wire ELSE {}
        /\ pc' = IF IsText THEN "headers" ELSE "read"
        /\ UNCHANGED code
     \/ /\ "malloc" \in faults
        /\ Fail(Unknown)
        /\ UNCHANGED <<ctx, pending>>
  /\ UNCHANGED <<given, wire, sending, pos, buffers, after_debug,
                 decoding_errors, crashed>>

\* The reader passes header i to extract_text_map_callback.
Pass(i) ==
  /\ pc = "headers"
  /\ i \in pending
  /\ pending' = pending \ {i}
  /\ UNCHANGED <<given, wire, sending, pos, buffers, decoding_errors>>

\* No memory for a copy of key, suffix or value, for the debug id or for put.
CallbackNoMemory(i) ==
  /\ Pass(i)
  /\ "malloc" \in faults
  /\ Fail(Unknown)
  /\ UNCHANGED <<ctx, after_debug, crashed>>

\* decode_value: the assertion of decode_uri_value holds.
Decodes(text) == format = "http_headers" => DecodeAsserts(text)

\* jaeger_span_context_scan, which says false without memory too.
ExtractContext(i) ==
  LET tokens == wire[i].tokens
  IN /\ Pass(i)
     /\ wire[i].kind = "context" /\ Decodes(wire[i].text)
     /\ \/ /\ ContextScans(tokens)
           /\ ctx' = [ctx EXCEPT !.trace_id = TraceIdScan(tokens[1]),
                                 !.span_id = Strtoull(tokens[2]),
                                 !.flags = Strtoull(tokens[3]) % 256]
           /\ UNCHANGED <<pc, code>>
        \/ /\ ~ContextScans(tokens) \/ "malloc" \in faults
           /\ Fail(Corrupted)
           /\ UNCHANGED ctx
     /\ after_debug' = FALSE
     /\ UNCHANGED crashed

\* flags | debug | sampled
Debugged(flags) == 4 * (flags \div 4) + 3

ExtractDebug(i) ==
  /\ Pass(i)
  /\ wire[i].kind = "debug" /\ Decodes(wire[i].text)
  /\ ctx' = [ctx EXCEPT !.debug_id = TRUE, !.flags = Debugged(@)]
  /\ after_debug' = TRUE
  /\ UNCHANGED <<pc, code, crashed>>

\* parse_comma_separated_map: the pairs before a malformed one are put.
PutAll(baggage, items) ==
  LET put[i \in 0 .. Len(items)] ==
        IF i = 0 THEN baggage ELSE [put[i - 1] EXCEPT ![items[i][1]] = items[i][2]]
  IN put[Len(items)]

ExtractBaggage(i) ==
  LET items == wire[i].items
      bad == {j \in DOMAIN items : items[j][2] = NoValue}
      first == IF bad = {} THEN Len(items) ELSE Min(bad) - 1
  IN /\ Pass(i)
     /\ wire[i].kind = "baggage" /\ Decodes(wire[i].text)
     /\ ctx' = [ctx EXCEPT !.baggage = PutAll(@, SubSeq(items, 1, first))]
     /\ IF bad = {} THEN UNCHANGED <<pc, code>> ELSE Fail(Corrupted)
     /\ UNCHANGED <<after_debug, crashed>>

\* The malloc of its value is not checked.
ExtractBaggageCrash(i) ==
  /\ Pass(i)
  /\ wire[i].kind = "baggage"
  /\ "malloc" \in faults
  /\ crashed' = "null"
  /\ UNCHANGED <<pc, code, ctx, after_debug>>

Suffix(key) == IF format = "http_headers" THEN ToLower[key] ELSE key

\* Only a key longer than the prefix is an item's.
IsItem(header) == header.kind = "prefix" /\ header.key # EmptyKey

ExtractItem(i) ==
  /\ Pass(i)
  /\ IsItem(wire[i]) /\ Decodes(wire[i].text)
  /\ ctx' = [ctx EXCEPT !.baggage[Suffix(wire[i].key)] = Decoded(wire[i].text)]
  /\ UNCHANGED <<pc, code, after_debug, crashed>>

DecodeCrash(i) ==
  /\ Pass(i)
  /\ wire[i].kind \in {"context", "debug", "baggage"} \/ IsItem(wire[i])
  /\ ~Decodes(wire[i].text)
  /\ crashed' = "assert"
  /\ UNCHANGED <<pc, code, ctx, after_debug>>

\* Another header, or the bare prefix.
ExtractOther(i) ==
  /\ Pass(i)
  /\ wire[i].kind = "other" \/ (wire[i].kind = "prefix" /\ ~IsItem(wire[i]))
  /\ UNCHANGED <<pc, code, ctx, after_debug, crashed>>

MutHeadersDone ==
  /\ pc = "headers"
  /\ pending = {}
  /\ pc' = IF ctx.trace_id = EmptyContext.trace_id /\ ctx.baggage = NoBaggage
           THEN "cleanup" ELSE "done"
  /\ UNCHANGED <<given, wire, code, sending, receiving, crashed>>

\* An empty context is a success without a context.
HeadersDone ==
  /\ pc = "headers"
  /\ pending = {}
  /\ pc' = IF /\ ctx.trace_id = EmptyContext.trace_id
              /\ ~ctx.debug_id
              /\ ctx.baggage = NoBaggage
           THEN "cleanup" ELSE "done"
  /\ UNCHANGED <<given, wire, code, sending, receiving, crashed>>

\* After the number of items, four fields each; the loop ends with the last.
\* A number above the largest int is negative in the loop's condition.
ItemsWanted ==
  CASE pos < 5 -> 1
    [] pos >= 5 /\ wire[5] <= IntMax -> wire[5]
    [] OTHER -> 0
ReadsDone == pos >= 5 /\ pos = 5 + 4 * ItemsWanted

\* read_binary, READ_BUFFER: too few bytes are a corrupted context.
ReadShort ==
  /\ pc = "read"
  /\ ~ReadsDone
  /\ pos = Len(wire)
  /\ Fail(Corrupted)
  /\ UNCHANGED <<given, wire, sending, receiving, crashed>>

\* The buffer of length + 1 bytes has none, and there are bytes to read.
Overflows ==
  /\ FieldName(pos + 1) \in {"key_len", "value_len"}
  /\ wire[pos + 1] = "wraps" /\ pos + 1 < Len(wire)

ReadOverflow ==
  /\ pc = "read"
  /\ ~ReadsDone /\ pos < Len(wire) /\ Overflows
  /\ crashed' = "overflow"
  /\ UNCHANGED <<given, wire, pc, code, sending, receiving>>

ReadField ==
  LET f == wire[pos + 1]
      name == FieldName(pos + 1)
  IN /\ pc = "read"
     /\ ~ReadsDone /\ pos < Len(wire) /\ ~Overflows
     /\ pos' = pos + 1
     /\ ctx' = CASE name = "high" -> [ctx EXCEPT !.trace_id.high = f]
                 [] name = "low" -> [ctx EXCEPT !.trace_id.low = f]
                 [] name = "span_id" -> [ctx EXCEPT !.span_id = f]
                 [] name = "flags" -> [ctx EXCEPT !.flags = f]
                 [] name = "value" -> [ctx EXCEPT !.baggage[wire[pos - 1]] = f]
                 [] OTHER -> ctx
     /\ buffers' = CASE name = "key_len" -> [buffers EXCEPT !.key = "live"]
                     [] name = "value_len" -> [buffers EXCEPT !.value = "live"]
                     [] name = "value" -> [key |-> "freed", value |-> "freed"]
                     [] OTHER -> buffers
     /\ UNCHANGED <<given, wire, pc, code, sending, pending, after_debug,
                    decoding_errors, crashed>>

\* No memory for a buffer, or for the item.
ReadNoMemory ==
  LET name == FieldName(pos + 1)
  IN /\ pc = "read"
     /\ ~ReadsDone /\ pos < Len(wire)
     /\ "malloc" \in faults
     /\ name \in {"key_len", "value_len", "value"}
     /\ Fail(Unknown)
     /\ buffers' = CASE name = "key_len" -> [buffers EXCEPT !.key = "null"]
                     [] name = "value_len" -> [buffers EXCEPT !.value = "null"]
                     [] OTHER -> buffers
     /\ UNCHANGED <<given, wire, sending, pending, pos, ctx, after_debug,
                    decoding_errors, crashed>>

ReadDone ==
  /\ pc = "read"
  /\ ReadsDone
  /\ pc' = "done"
  /\ UNCHANGED <<given, wire, code, sending, receiving, crashed>>

MutCleanup ==
  /\ pc = "cleanup"
  /\ "freed" \notin {buffers.key, buffers.value}
  /\ decoding_errors' = decoding_errors + (IF code = Success THEN 0 ELSE 1)
  /\ ctx' = NoContext
  /\ buffers' = [key |-> "null", value |-> "null"]
  /\ pc' = "done"
  /\ UNCHANGED <<given, wire, code, sending, pending, pos, after_debug, crashed>>

\* Both buffers and the context are freed, and a corrupted one is counted.
Cleanup ==
  /\ pc = "cleanup"
  /\ "freed" \notin {buffers.key, buffers.value}
  /\ decoding_errors' = decoding_errors + (IF code = Corrupted THEN 1 ELSE 0)
  /\ ctx' = NoContext
  /\ buffers' = [key |-> "null", value |-> "null"]
  /\ pc' = "done"
  /\ UNCHANGED <<given, wire, code, sending, pending, pos, after_debug, crashed>>

\* The buffers of an item are freed but their pointers are kept.
CleanupCrash ==
  /\ pc = "cleanup"
  /\ "freed" \in {buffers.key, buffers.value}
  /\ crashed' = "double_free"
  /\ UNCHANGED <<given, wire, pc, code, sending, receiving>>

---------------------------------------------------------------------------
Next ==
  /\ crashed = "no"
  /\ \/ InjectInvalid \/ Inject \/ SetContext \/ NextBucket \/ SetItem
     \/ BucketDone \/ WriteBinary \/ Deliver \/ Extract
     \/ \E i \in pending : \/ CallbackNoMemory(i) \/ ExtractContext(i)
                           \/ ExtractDebug(i) \/ ExtractBaggage(i)
                           \/ ExtractBaggageCrash(i) \/ ExtractItem(i)
                           \/ DecodeCrash(i) \/ ExtractOther(i)
     \/ HeadersDone \/ ReadShort \/ ReadField \/ ReadOverflow \/ ReadNoMemory
     \/ ReadDone \/ Cleanup \/ CleanupCrash

Spec == Init /\ [][Next]_vars

---------------------------------------------------------------------------
(* Properties *)

Codes == {Success, Corrupted, Unknown}

IsExtracted(c) ==
  /\ DOMAIN c = DOMAIN EmptyContext
  /\ c.trace_id \in [high : Id, low : Id]
  /\ c.span_id \in Id
  /\ c.flags \in 0 .. 255
  /\ c.debug_id \in BOOLEAN
  /\ c.baggage = [k \in Keys |-> c.baggage[k]]

\* Every variable has its type; an id that was scanned fits its width.
TypeOK ==
  /\ format \in TextFormats \cup {"binary"}
  /\ source # NoContext => IsContext(source)
  /\ CarrierFits(format, wire)
  /\ faults \in FaultSets
  /\ pc \in {"inject", "context", "bucket", "item", "write", "deliver",
             "extract", "headers", "read", "cleanup", "done"}
  /\ code \in Codes
  /\ bucket \in Nat /\ entry \in Nat
  /\ injected \in Codes \cup {"no", "invalid_span_context"}
  /\ pending \subseteq 1 .. Len(wire)
  /\ pos \in 0 .. Len(wire)
  /\ ctx # NoContext => IsExtracted(ctx)
  /\ buffers \in [key : {"null", "live", "freed"}, value : {"null", "live", "freed"}]
  /\ after_debug \in BOOLEAN
  /\ decoding_errors \in {0, 1}
  /\ crashed \in {"no", "null", "assert", "overflow", "double_free"}

OnWire(item) ==
  \E i \in DOMAIN wire : wire[i] = ItemHeader(item[1], Encoded(item[2]))
ContextWritten == wire # <<>> /\ wire[1] = ContextHeader(ContextFormat(source))

\* When inject_text_map_helper says success the context and every baggage item
\* are in the carrier (the loop's comment: "Loop will not execute if error_code
\* is not opentracing_propagation_error_code_success").
SuccessIsWritten ==
  IsText /\ source # NoContext /\ injected = Success =>
    ContextWritten /\ \A item \in Range(Items(source)) : OnWire(item)

\* The carrier holds what was injected and, of others, a debug id at most.
Undisturbed ==
  /\ source # NoContext
  /\ injected = Success
  /\ IF IsText
     THEN /\ \A i \in DOMAIN wire :
               /\ wire[i].kind # "baggage"
               /\ wire[i].kind = "context" => wire[i] = ContextHeader(ContextFormat(source))
               /\ wire[i].kind = "prefix" =>
                    \E item \in Range(Items(source)) :
                      wire[i] = ItemHeader(item[1], Encoded(item[2]))
          /\ \A item \in Range(Items(source)) : OnWire(item)
     ELSE wire = BinaryFields(source)

HasDebug == IsText /\ \E i \in DOMAIN wire : wire[i].kind = "debug"

\* In a text carrier an item without a key does not arrive.
IsEmpty(c) ==
  /\ c.trace_id = EmptyContext.trace_id
  /\ \A item \in Range(Items(c)) : item[1] = EmptyKey
Arriving == {item \in Range(Items(source)) : IsText => item[1] # EmptyKey}

\* The values that were sent under a key.
Sent(k) == {item[2] : item \in {item \in Arriving : Suffix(item[1]) = k}}

\* What one process injects another extracts, in whatever order the headers
\* come: the ids (for every number of digits), the flags (with the debug bits
\* if the debug header came after the context's), and of the baggage every
\* value, through the percent encoding, under its key (in lower case for HTTP
\* headers), except that the key "" arrives in a binary carrier only.  An empty
\* context arrives as none.
RoundTrip ==
  pc = "done" /\ Undisturbed /\ code = Success =>
    IF IsText /\ IsEmpty(source) /\ ~HasDebug THEN ctx = NoContext
    ELSE /\ ctx.trace_id = source.trace_id
         /\ ctx.span_id = source.span_id
         /\ ctx.flags = (IF after_debug THEN Debugged(source.flags) ELSE source.flags)
         /\ ctx.debug_id = HasDebug
         /\ \A k \in Keys : IF Sent(k) = {} THEN ctx.baggage[k] = NoValue
                            ELSE ctx.baggage[k] \in Sent(k)

\* An extract that fails leaves neither context nor buffers, and
\* decoding_errors counts exactly the corrupted carriers.  A buffer is freed
\* twice only in a binary carrier that breaks off after its first item (of four
\* fields, after five): one cut earlier is refused cleanly.
ErrorLeavesNothing ==
  /\ pc = "done" =>
       /\ code # Success => ctx = NoContext
       /\ "live" \notin {buffers.key, buffers.value}
       /\ decoding_errors = (IF code = Corrupted THEN 1 ELSE 0)
  /\ crashed = "double_free" => pos >= 9

\* The buffers are large enough: strlen(value) + 1 for what decode_uri_value
\* writes (its assertion dst_len + 1 <= src_len + 1), also for texts that end
\* inside an escape, three times the value for encode_uri_value, and the digits
\* of a 64-bit number for the half of a trace id that is scanned.
BuffersSuffice ==
  /\ IsText => \A i \in DOMAIN wire :
       /\ wire[i].kind = "prefix" =>
            Len(decode_uri_value(wire[i].text)) <= Len(wire[i].text)
       /\ wire[i].kind = "context" /\ ContextScans(wire[i].tokens) =>
            HighLen(wire[i].tokens[1]) <= Width
  /\ source # NoContext => \A item \in Range(Items(source)) :
       Len(encode_uri_value(item[2])) <= 3 * Len(item[2])

---------------------------------------------------------------------------
(* The inductive invariant *)

Sending == {"inject", "context", "bucket", "item", "write"}

\* What holds at each place of inject and extract.
Phases ==
  /\ pc \in Sending => IsContext(source) /\ injected = "no"
  /\ pc \in {"inject", "context", "write", "extract", "headers", "read"} => code = Success
  /\ pc \in {"inject", "context"} => wire = <<>> /\ bucket = 1 /\ entry = 1
  /\ pc \in {"context", "bucket", "item", "headers"} => IsText
  /\ pc \in {"write", "read"} => ~IsText
  /\ pc = "write" => Len(wire) <= Len(BinaryFields(source))
  /\ pc \in Sending \cup {"deliver", "extract"} =>
       /\ pending = {} /\ pos = 0
       /\ buffers = [key |-> "null", value |-> "null"]
       /\ ~after_debug
       /\ crashed = "no"
  /\ pc \in {"headers", "read"} => IsExtracted(ctx)
  /\ pc # "done" => decoding_errors = 0
  /\ IsText => pos = 0 /\ buffers = [key |-> "null", value |-> "null"]

LastWritten(b) ==
  source.buckets[b] # <<>> => OnWire(source.buckets[b][Len(source.buckets[b])])

\* A success is that of the context and of the last entry of every bucket.
LastsWritten ==
  IsText /\ source # NoContext /\ injected = Success =>
    ContextWritten /\ \A b \in DOMAIN source.buckets : LastWritten(b)

\* How far the loops of inject_text_map_helper have come.
LoopInv ==
  /\ pc = "bucket" =>
       /\ bucket \in 1 .. Len(source.buckets) + 1 /\ entry = 1
       /\ code = Success => ContextWritten /\ \A b \in 1 .. bucket - 1 : LastWritten(b)
  /\ pc = "item" =>
       /\ bucket \in 1 .. Len(source.buckets)
       /\ entry \in 1 .. Len(source.buckets[bucket]) + 1
       /\ ContextWritten /\ \A b \in 1 .. bucket - 1 : LastWritten(b)
       /\ code = Success /\ entry > 1 => OnWire(source.buckets[bucket][entry - 1])

\* No buffer is in use between two items, and none was freed before the first.
BufferInv ==
  /\ pc = "read" /\ (pos <= 5 \/ FieldName(pos) = "value") =>
       "live" \notin {buffers.key, buffers.value}
  /\ "freed" \in {buffers.key, buffers.value} => pos >= 9

\* The context after some of the headers.
HeadersInv ==
  LET passed == DOMAIN wire \ pending
      Of(i) == Suffix(wire[i].key)
  IN pc = "headers" /\ crashed = "no" /\ Undisturbed =>
       /\ (\E i \in passed : wire[i].kind = "context") =>
            /\ ctx.trace_id = source.trace_id
            /\ ctx.span_id = source.span_id
            /\ ctx.flags = IF after_debug THEN Debugged(source.flags) ELSE source.flags
       /\ ctx.debug_id = \E i \in passed : wire[i].kind = "debug"
       /\ \A k \in Keys : ctx.baggage[k] \in Sent(k) \cup {NoValue}
       /\ \A i \in passed : IsItem(wire[i]) => ctx.baggage[Of(i)] \in Sent(Of(i))

\* The context after some of the fields.
FieldsInv ==
  pc = "read" /\ Undisturbed =>
    /\ pos >= 1 => ctx.trace_id.high = source.trace_id.high
    /\ pos >= 2 => ctx.trace_id.low = source.trace_id.low
    /\ pos >= 3 => ctx.span_id = source.span_id
    /\ pos >= 4 => ctx.flags = source.flags
    /\ ~ctx.debug_id /\ ~after_debug
    /\ \A k \in Keys : ctx.baggage[k] \in Sent(k) \cup {NoValue}
    /\ \A i \in DOMAIN Items(source) :
         pos >= 5 + 4 * i => ctx.baggage[Items(source)[i][1]] \in Sent(Items(source)[i][1])

\* Nothing is freed after a success but an empty context.
CleanupInv ==
  pc = "cleanup" /\ code = Success /\ Undisturbed => IsText /\ IsEmpty(source) /\ ~HasDebug

\* The invariant that the proofs rest on.
IndInv ==
  /\ TypeOK /\ Phases /\ LoopInv /\ BufferInv
  /\ HeadersInv /\ FieldsInv /\ CleanupInv
  /\ LastsWritten /\ RoundTrip /\ ErrorLeavesNothing
====
