------------------------------ MODULE BootIni -------------------------------
(***************************************************************************)
(* The configuration file of the photo frame: get_key_value of lib.c and   *)
(* shell_parse of shell.c, in src/tiny210-linux-codes/prj3-dpf-dma.        *)
(*                                                                         *)
(* A text is a sequence of tokens: "=", " ", "\n", "#" and words, which are*)
(* keys (letters only) or file names (letters first).  The functions treat *)
(* the characters of a word alike, but that only the letters of a word     *)
(* count in a key.  Every word takes one place in a buffer.                *)
(***************************************************************************)
EXTENDS Integers, Sequences, SequencesExt

Equals == "="
Space == " "
Newline == "\n"
Hash == "#"
Signs == {Equals, Space, Newline, Hash}
NUL == "0"

-----------------------------------------------------------------------------
(* get_key_value                                                           *)

\* The char array value written at place k, from 0.
PutAt(value, k, c) == [n \in 1..(IF k < Len(value) THEN Len(value) ELSE k + 1) |->
                        IF n = k + 1 THEN c ELSE value[n]]

\* One character of the text.  state: 0 start, 1 in the key, 2 after the key,
\* 3 after '=', 4 after the space that follows it, 5 in the value.
Character(key, st, c) ==
  LET word == c \notin Signs
      ended == [st EXCEPT !.value = PutAt(@, st.v, NUL), !.state = 0, !.name = <<>>, !.v = 0]
  IN IF st.found THEN st
     ELSE CASE st.state \in {0, 1} /\ (word \/ c = Hash) ->
            [st EXCEPT !.name = Append(@, c), !.state = 1]
       [] st.state = 1 /\ c = Space -> [st EXCEPT !.state = 2]
       [] st.state \in {1, 2} /\ c = Equals -> [st EXCEPT !.state = 3]
       [] st.state = 3 /\ c = Space -> [st EXCEPT !.state = 4]
       [] (st.state \in {3, 4} /\ word) \/ (st.state = 5 /\ (word \/ c = Space)) ->
            [st EXCEPT !.value = PutAt(@, st.v, c), !.v = @ + 1, !.state = 5]
       [] st.state = 5 /\ c = Newline -> [ended EXCEPT !.found = st.name = <<key>>]
       [] OTHER -> st

\* The same; the sets have TLC evaluate st once.
Once(key, st, c) == CHOOSE next \in {Character(key, now, c) : now \in {st}} : TRUE

\* Where the machine starts, and where it is after each character of the text.
Begin(value) == [state |-> 0, name |-> <<>>, value |-> value, v |-> 0, found |-> FALSE]
Scanned(key, text, value) ==
  LET st[k \in 0..Len(text)] == IF k = 0 THEN Begin(value) ELSE Once(key, st[k - 1], text[k])
  IN st

\* What the array value holds afterwards, whether the key was found or not.
get_key_value(key, text, value) == Scanned(key, text, value)[Len(text)].value

-----------------------------------------------------------------------------
(* shell_parse                                                             *)

\* A string is the array up to its first NUL.
StringOf(value) == SelectInSeq(value, LAMBDA c : c = NUL)
Content(value) == SubSeq(value, 1, StringOf(value) - 1)

\* A place that holds no space where state is 0 starts an argument; a space ends
\* the argument it follows.  The arguments, in order, as sequences of tokens.
Argument(s, k) ==
  LET end == CHOOSE e \in k..Len(s) :
               (e = Len(s) \/ s[e + 1] = Space) /\ \A m \in k..e : s[m] # Space
  IN SubSeq(s, k, end)
\* Mutant: a space does not set state back to 0.
ShellParseOnce(value) ==
  LET s == Content(value) IN IF s = <<>> THEN <<>> ELSE <<Argument(s, 1)>>
Starts(s) ==
  LET found[k \in 0..Len(s)] ==
        IF k = 0 THEN <<>>
        ELSE IF s[k] # Space /\ (k = 1 \/ s[k - 1] = Space) THEN Append(found[k - 1], k)
        ELSE found[k - 1]
  IN found[Len(s)]
Arguments(s, starts) == [n \in DOMAIN starts |-> Argument(s, starts[n])]
\* The sets have TLC evaluate the string and its starts once.
shell_parse(value) ==
  CHOOSE args \in UNION {{Arguments(s, starts) : starts \in {Starts(s)}} : s \in {Content(value)}} :
    TRUE

-----------------------------------------------------------------------------
(* What a file is meant to say: the names on the first line of a key.      *)

\* A line: comment is the sequence of tokens before the key, eq those around "=",
\* gap those between the names.
Plain == STRING \ (Signs \cup {NUL})
IniLine ==
  {line \in [comment : Seq(Plain \cup {Equals, Space, Hash}), key : Plain, eq : Seq({Space, Equals}),
             gap : Seq({Space}), names : Seq(Plain)] :
     /\ line.comment = <<>> \/ line.comment[1] = Hash
     /\ \E k \in DOMAIN line.eq : \A j \in DOMAIN line.eq : line.eq[j] = Equals <=> j = k
     /\ line.names # <<>>
     /\ line.gap # <<>> \/ Len(line.names) = 1}

\* A name every Len(gap) + 1 tokens.
Spread(names, gap) ==
  LET step == Len(gap) + 1
  IN [m \in 1..((Len(names) - 1) * step + 1) |->
        IF (m - 1) % step = 0 THEN names[((m - 1) \div step) + 1] ELSE gap[(m - 1) % step]]
LineText(line) ==
  line.comment \o <<line.key>> \o line.eq \o Spread(line.names, line.gap) \o <<Newline>>

\* The first k lines; the file.
TextTo(lines, k) ==
  LET text[n \in 0..Len(lines)] == IF n = 0 THEN <<>> ELSE text[n - 1] \o LineText(lines[n])
  IN text[k]
Text(lines) == TextTo(lines, Len(lines))

IsFor(key, line) == line.key = key /\ line.comment = <<>>
Named(key, lines) ==
  LET k == CHOOSE n \in DOMAIN lines :
             IsFor(key, lines[n]) /\ \A m \in 1..(n - 1) : ~IsFor(key, lines[m])
  IN lines[k].names
=============================================================================
