------------------------------- MODULE Config -------------------------------
(***************************************************************************)
(* The configuration of loader/config.c: the parser, which turns the text  *)
(* into a flat buffer of entries linked by relative offsets, and the look  *)
(* ups over that buffer.                                                   *)
(*                                                                         *)
(* The text is a sequence of characters.  A word counts as one character,  *)
(* since no decision of the parser looks inside a word; what number a word *)
(* stands for is given by the constants.  Offsets count from 0 as in the   *)
(* code: slot n of the buffer is entries[n + 1].  The line and column of   *)
(* an error message are left out; the column, which is also used to go     *)
(* back to the start of a line, is the distance from that start.           *)
(***************************************************************************)
EXTENDS Integers, Sequences, FiniteSets, FiniteSetsExt

CONSTANTS
    MAX_DEPTH,    \* nesting levels the parser's table has room for
    Unsigned,     \* the words str_to_u64 accepts, with their numbers
    Signed        \* the words only str_to_i64 accepts

ASSUME ConfigAssumption == MAX_DEPTH \in Nat \ {0}

VARIABLES
    src,          \* the text
    parse_pc,
    parser,       \* struct config_parser
    must_be_ident,
    obj,          \* the locals of cfg_parse_objects
    cfg           \* struct config

configVars == <<src, parse_pc, parser, must_be_ident, obj, cfg>>

Depths == 0..(MAX_DEPTH - 1)

NoParser == [idx |-> 0, ind_char |-> "", ind_count |-> 0, in_value |-> FALSE,
             in_lentry |-> FALSE, depth_to_offset |-> [d \in Depths |-> 0]]
NoObject == [base_depth |-> 0, current_depth |-> 0, prev_tok |-> "eof", key |-> <<>>]
NoConfig == [entries |-> <<>>, first |-> 0, last |-> 0]

ConfigInit ==
    /\ parse_pc = "start"
    /\ parser = NoParser
    /\ must_be_ident = FALSE
    /\ obj = NoObject
    /\ cfg = NoConfig

-----------------------------------------------------------------------------
(* Characters and tokens                                                   *)

CFG_EOF_CH == "end of file"
Blank == {" ", "\t"}
Control == "control character"    \* any character outside 32..126

\* cfg_getch
CharAt(i) == IF i < Len(src) THEN src[i + 1] ELSE CFG_EOF_CH

is_reserved_char(c) == c \in {" ", "\t", "\r", "\n", ":", "=", "#", "[", "]"}
cfg_verify_valid_char(c) == c \notin {Control, "\t", "\r", "\n"}

Fail == -1

\* cfg_skip_whitespace: the index behind it, or Fail.
cfg_skip_whitespace(i) ==
    LET end == Min({j \in i..Len(src) : CharAt(j) \notin Blank})
    IN IF CharAt(end) = CFG_EOF_CH \/ ~cfg_verify_valid_char(CharAt(end)) THEN Fail ELSE end

LineStart(i) == Max({0} \cup {j \in 1..i : CharAt(j - 1) = "\n"})

\* cfg_skip_empty_lines: the loop from index i, with its flags.  It ends at the
\* start of the first line that holds something, or at the end of the text.
SkipLines[i \in Nat, allow_chars \in BOOLEAN, in_comment \in BOOLEAN, expect_newline \in BOOLEAN] ==
    LET c == CharAt(i)
    IN CASE c = CFG_EOF_CH -> i
         [] c = "\n" -> SkipLines[i + 1, TRUE, FALSE, FALSE]
         [] c # "\n" /\ expect_newline -> Fail
         [] in_comment -> SkipLines[i + 1, allow_chars, TRUE, FALSE]
         [] c = "\r" -> SkipLines[i + 1, allow_chars, FALSE, TRUE]
         [] c = "#" -> SkipLines[i + 1, allow_chars, TRUE, FALSE]
         [] c \in Blank -> SkipLines[i + 1, allow_chars, FALSE, FALSE]
         [] OTHER -> IF cfg_verify_valid_char(c) /\ allow_chars THEN LineStart(i) ELSE Fail

cfg_skip_empty_lines(i, allow_chars_on_first_line) ==
    SkipLines[i, allow_chars_on_first_line, FALSE, FALSE]

BadToken == [ok |-> FALSE]

\* A token that was read up to p.idx, and what is skipped behind it.
TokenThen(type, str, p, skip_multiline) ==
    LET end == IF skip_multiline THEN cfg_skip_empty_lines(p.idx, FALSE)
               ELSE cfg_skip_whitespace(p.idx)
    IN IF end = Fail THEN BadToken
       ELSE [ok |-> TRUE, type |-> type, str |-> str, n |-> 0, p |-> [p EXCEPT !.idx = end]]

\* cfg_consume_terminated_string, from behind the opening character.
Terminated(type, p, eos_char) ==
    LET end == Min({j \in p.idx..Len(src) : CharAt(j) \in {eos_char, CFG_EOF_CH, "\r", "\n"}})
    IN IF CharAt(end) # eos_char THEN BadToken
       ELSE TokenThen(type, SubSeq(src, p.idx + 1, end), [p EXCEPT !.idx = end + 1], TRUE)

\* cfg_consume_unterminated_string: a value, or an identifier when none is
\* expected, in which case its value comes next on the same line.
Unterminated(p) ==
    LET end == Min({j \in p.idx..Len(src) :
                      \/ CharAt(j) = CFG_EOF_CH
                      \/ is_reserved_char(CharAt(j))
                      \/ ~cfg_verify_valid_char(CharAt(j))})
    IN IF CharAt(end) = Control THEN BadToken
       ELSE TokenThen("string", SubSeq(src, p.idx + 1, end),
                      [p EXCEPT !.idx = end, !.in_value = ~p.in_value], p.in_value)

LevelOf(p, characters, count) ==
    (characters \div count) + (IF p.in_lentry THEN 1 ELSE 0)

\* cfg_fetch_indentation.  The first indentation of the file sets the unit.  At
\* the end of the file cfg_ungetch steps back although nothing was taken.
cfg_fetch_indentation(p) ==
    LET char == CharAt(p.idx)
        end == Min({j \in p.idx..Len(src) : CharAt(j) \notin Blank})
        characters == end - p.idx
        first == p.ind_char = ""
        count == IF first THEN characters ELSE p.ind_count
    IN IF \/ ~first /\ p.ind_char # char
          \/ \E j \in p.idx..(end - 1) : CharAt(j) # char
          \/ characters % count # 0
       THEN BadToken
       ELSE [ok |-> TRUE, type |-> "indent", str |-> <<>>, n |-> LevelOf(p, characters, count),
             p |-> [p EXCEPT !.idx = IF CharAt(end) = CFG_EOF_CH THEN end - 1 ELSE end,
                             !.ind_char = char, !.ind_count = count]]

cfg_fetch_token(p) ==
    LET c == CharAt(p.idx)
        q == [p EXCEPT !.idx = @ + 1]
    IN CASE c = CFG_EOF_CH -> [ok |-> TRUE, type |-> "eof", str |-> <<>>, n |-> 0, p |-> p]
         [] c \in Blank -> cfg_fetch_indentation(p)
         [] c = ":" -> TokenThen("colon", <<>>, [q EXCEPT !.in_value = FALSE], TRUE)
         [] c = "=" -> TokenThen("equ", <<>>, q, FALSE)
         [] c = "[" -> Terminated("lentry", q, "]")
         [] c \in {"'", "\""} ->
              IF p.in_value THEN Terminated("string", [q EXCEPT !.in_value = FALSE], c) ELSE BadToken
         [] OTHER -> Unterminated(p)

-----------------------------------------------------------------------------
(* The buffer of entries                                                   *)

NoValue == [type |-> "none", as_string |-> <<>>, as_unsigned |-> 0, as_bool |-> FALSE]

\* cfg_object_from_string; quoted text is interpreted like any other.
cfg_object_from_string(str) ==
    LET word == IF Len(str) = 1 THEN str[1] ELSE ""
    IN CASE word \in DOMAIN Unsigned -> [NoValue EXCEPT !.type = "unsigned", !.as_unsigned = Unsigned[word]]
         [] word \in Signed -> [NoValue EXCEPT !.type = "signed"]
         [] word \in {"true", "false"} -> [NoValue EXCEPT !.type = "boolean", !.as_bool = (word = "true")]
         [] word = "null" -> NoValue
         [] OTHER -> [NoValue EXCEPT !.type = "string", !.as_string = str]

Entry(t, key, value) == [t |-> t, key |-> key, value |-> value, cfg_off |-> 0, next |-> 0]

\* MUTANT: the deeper levels of the table are kept.
Deeper_Kept(table, depth, d) == FALSE

\* The levels below depth that are in use, up to the first one that is not.
Deeper(table, depth, d) == d > depth /\ \A i \in (depth + 1)..d : table[i] # 0

\* cfg_emplace: the buffer with e at its end, linked from the last entry of its
\* level, and the table of the last entries.
Linked(c, p, e, depth) ==
    LET n == Len(c.entries)
        old == p.depth_to_offset[depth]
        linked == IF old = 0 THEN c.entries ELSE [c.entries EXCEPT ![old].next = n - (old - 1)]
        lentry == e.t = "loadable"
    IN [c EXCEPT !.entries = Append(linked, IF lentry THEN e ELSE [e EXCEPT !.cfg_off = n]),
                 !.first = IF lentry /\ @ = 0 THEN n + 1 ELSE @,
                 !.last = IF lentry THEN n + 1 ELSE @]

TableAfter(c, p, depth) ==
    [p EXCEPT !.depth_to_offset =
        [d \in Depths |-> IF d = depth THEN Len(c.entries) + 1
                          ELSE IF Deeper(@, depth, d) THEN 0 ELSE @[d]]]

-----------------------------------------------------------------------------
(* The parser                                                              *)

\* err_out of cfg_parse: the buffer is released.
ParseError ==
    /\ parse_pc' = "failed"
    /\ cfg' = NoConfig
    /\ UNCHANGED <<src, parser, must_be_ident, obj>>

\* Whitespace and comments at the beginning.
ParseStart ==
    LET i == cfg_skip_empty_lines(0, TRUE)
    IN
    /\ parse_pc = "start"
    /\ IF i = Fail THEN ParseError
       ELSE /\ parser' = [parser EXCEPT !.idx = i]
            /\ parse_pc' = "top"
            /\ UNCHANGED <<src, must_be_ident, obj, cfg>>

\* One token of the loop of cfg_parse.
ParseTop ==
    LET tok == cfg_fetch_token(parser)
        base == IF parser.in_lentry THEN 1 ELSE 0
    IN
    /\ parse_pc = "top"
    /\ CASE tok.ok /\ tok.type = "string" ->
              \* Unfetched, and cfg_parse_objects begins.
              /\ must_be_ident' = FALSE
              /\ parser' = [tok.p EXCEPT !.idx = parser.idx, !.in_value = FALSE]
              /\ obj' = [NoObject EXCEPT !.base_depth = base, !.current_depth = base]
              /\ parse_pc' = "objects"
              /\ UNCHANGED <<src, cfg>>
         [] tok.ok /\ tok.type = "lentry" /\ ~must_be_ident ->
              LET e == Entry("loadable", tok.str, NoValue)
              IN /\ cfg' = Linked(cfg, parser, e, 0)
                 /\ parser' = TableAfter(cfg, [tok.p EXCEPT !.in_lentry = TRUE], 0)
                 /\ must_be_ident' = TRUE
                 /\ UNCHANGED <<src, obj, parse_pc>>
         [] tok.ok /\ tok.type = "eof" /\ ~must_be_ident ->
              parse_pc' = "parsed" /\ UNCHANGED <<src, parser, must_be_ident, obj, cfg>>
         [] OTHER -> ParseError

\* "'foobar' is empty because 'val' is at the same level"
EmptyObject(tok) ==
    obj.prev_tok = "colon" /\ (tok.type # "indent" \/ tok.n # obj.current_depth)

\* The first token of a round of cfg_parse_objects.
ParseKey ==
    LET tok == cfg_fetch_token(parser)
    IN
    /\ parse_pc = "objects"
    /\ CASE ~tok.ok -> ParseError
         [] tok.ok /\ EmptyObject(tok) -> ParseError
         [] tok.ok /\ ~EmptyObject(tok) /\ tok.type \in {"eof", "lentry"} ->
              /\ parser' = [tok.p EXCEPT !.idx = parser.idx]
              /\ parse_pc' = "top"
              /\ UNCHANGED <<src, must_be_ident, obj, cfg>>
         [] tok.ok /\ ~EmptyObject(tok) /\ tok.type = "indent" ->
              IF tok.n > obj.current_depth THEN ParseError
              ELSE /\ parser' = tok.p
                   /\ obj' = [obj EXCEPT !.current_depth = tok.n, !.prev_tok = "indent"]
                   /\ UNCHANGED <<src, parse_pc, must_be_ident, cfg>>
         [] tok.ok /\ ~EmptyObject(tok) /\ tok.type = "string" ->
              /\ parser' = tok.p
              /\ obj' = [obj EXCEPT !.key = tok.str,
                            !.current_depth = IF obj.prev_tok = "indent" THEN @ ELSE obj.base_depth]
              /\ parse_pc' = "entry"
              /\ UNCHANGED <<src, must_be_ident, cfg>>
         [] OTHER -> ParseError

\* What follows the key: ':' and nothing, or '=' and the value.  The level of a
\* value is not compared with MAX_DEPTH: below an object of the last level
\* cfg_emplace uses a slot behind the table.
ParseEntry ==
    LET tok == cfg_fetch_token(parser)
        val == cfg_fetch_token(tok.p)
        depth == obj.current_depth
        object == Entry("value", obj.key, [NoValue EXCEPT !.type = "object"])
    IN
    /\ parse_pc = "entry"
    /\ CASE tok.ok /\ tok.type = "colon" /\ depth < MAX_DEPTH ->
              /\ cfg' = Linked(cfg, parser, object, depth)
              /\ parser' = TableAfter(cfg, tok.p, depth)
              /\ obj' = [obj EXCEPT !.prev_tok = "colon", !.current_depth = depth + 1]
              /\ parse_pc' = "objects"
              /\ UNCHANGED <<src, must_be_ident>>
         [] tok.ok /\ tok.type = "equ" /\ val.ok /\ val.type = "string" /\ depth = MAX_DEPTH ->
              parse_pc' = "overrun" /\ UNCHANGED <<src, parser, must_be_ident, obj, cfg>>
         [] tok.ok /\ tok.type = "equ" /\ val.ok /\ val.type = "string" /\ depth < MAX_DEPTH ->
              /\ cfg' = Linked(cfg, parser, Entry("value", obj.key, cfg_object_from_string(val.str)), depth)
              /\ parser' = TableAfter(cfg, val.p, depth)
              /\ obj' = [obj EXCEPT !.prev_tok = "equ"]
              /\ parse_pc' = "objects"
              /\ UNCHANGED <<src, must_be_ident>>
         [] OTHER -> ParseError

cfg_parse == ParseStart \/ ParseTop \/ ParseKey \/ ParseEntry

-----------------------------------------------------------------------------
(* Look ups                                                                *)

Slot(c, off) == c.entries[off + 1]

EndsSearch(e) == e.t # "value"

\* cfg_find from offset: the offsets of the entries called key, in order.
cfg_find(c, offset, key) ==
    LET From[off \in 0..(Len(c.entries) - 1)] ==
          LET e == Slot(c, off)
          IN IF EndsSearch(e) THEN <<>>
             ELSE (IF e.key = key THEN <<off>> ELSE <<>>)
                  \o (IF e.next = 0 THEN <<>> ELSE From[off + e.next])
    IN From[offset]

Missing == [out |-> "none"]
Oops == [out |-> "oops"]
Tripped == [out |-> "bug"]
Found(e) == [out |-> "value", value |-> e.value, cfg_off |-> e.cfg_off]

\* cfg_find_ext; offset is -1 for the global values.
cfg_find_ext(c, offset, unique, key, mask) ==
    LET size == Len(c.entries)
        hits == cfg_find(c, offset + 1, key)
    IN CASE offset # -1 /\ offset >= (IF size = 0 THEN 0 ELSE size - 1) -> Tripped
         [] size = 0 -> Missing
         [] hits = <<>> -> Missing
         [] Len(hits) > 1 /\ unique -> Oops
         [] OTHER -> LET e == Slot(c, hits[1])
                     IN IF e.value.type \in mask THEN Found(e) ELSE Oops

\* cfg_get_next_one_of with oops_on_non_matching_type
cfg_get_next_one_of(c, off, mask) ==
    LET key == Slot(c, off).key
        After[o \in 0..(Len(c.entries) - 1)] ==
          LET e == Slot(c, o)
              n == Slot(c, o + e.next)
          IN IF e.next = 0 THEN Missing
             ELSE IF n.key # key THEN After[o + e.next]
             ELSE IF n.value.type \in mask THEN Found(n) ELSE Oops
    IN After[off]

\* cfg_get_loadable_entry and cfg_first_loadable_entry: offset or -1.
cfg_first_loadable_entry(c) == c.first - 1

cfg_get_loadable_entry(c, key) ==
    LET From[off \in 0..(Len(c.entries) - 1)] ==
          LET e == Slot(c, off)
          IN IF e.key = key THEN off
             ELSE IF e.next = 0 THEN -1 ELSE From[off + e.next]
    IN IF c.first = 0 THEN -1 ELSE From[c.first - 1]
=============================================================================
