---------------------------- MODULE LoaderStrings ----------------------------
(***************************************************************************)
(* The string processing of lib/loader/loader.c: how evmc_load makes the   *)
(* name of the create function out of the file name of a module, and how   *)
(* evmc_load_and_configure takes a configuration string apart.  A string   *)
(* is a sequence of characters without its terminating null.  The only     *)
(* separator of a path is a slash, as everywhere but on Windows.           *)
(***************************************************************************)
EXTENDS Naturals, FiniteSets, Sequences, SequencesExt

CONSTANTS
  FileName,          \* arguments of evmc_load, sequences of characters
  Config,            \* arguments of evmc_load_and_configure
  PATH_MAX_LENGTH

ASSUME PathLength == PATH_MAX_LENGTH \in Nat \ {0}
ASSUME Arguments == \A s \in FileName \cup Config : s \in Seq(STRING)

VARIABLES
  input,      \* the argument: a file name or a configuration string
  pc,
  text,       \* the string being rewritten: base_name, or the rest of the options
  position,   \* dash_pos
  path,       \* the file name found in a configuration
  passed      \* the options passed to the VM so far

vars == <<input, pc, text, position, path, passed>>

Comma == ","
Underscore == "_"

\* strchr and strrchr: an index, or 0.
First(c, s) == SelectInSeq(s, LAMBDA x : x = c)
LastOf(c, s) == SelectLastInSeq(s, LAMBDA x : x = c)

From(i, s) == SubSeq(s, i, Len(s))

(* strcpy_sx: what dest holds afterwards, and what is returned.            *)
Fits(destsz, src) == Len(src) < destsz
strcpy_sx(destsz, src) == IF Fits(destsz, src) THEN src ELSE <<>>

Become(to, newText) ==
  /\ pc' = to
  /\ text' = newText
  /\ UNCHANGED input

Init ==
  /\ \/ pc = "load" /\ input \in FileName
     \/ pc = "configure" /\ input \in Config
  /\ text = <<>>
  /\ position = 1
  /\ path = <<>>
  /\ passed = <<>>
-----------------------------------------------------------------------------
(* evmc_load.                                                              *)

CheckFileName ==
  /\ pc = "load"
  /\ IF input = <<>> \/ Len(input) > PATH_MAX_LENGTH
     THEN Become("refused", text)
     ELSE Become("find name", input)
  /\ UNCHANGED <<position, path, passed>>

\* The part after the last separator, without the lib prefix.
WithoutLib(name) ==
  IF IsPrefix(<<"l", "i", "b">>, name) THEN From(4, name) ELSE name

FindName ==
  /\ pc = "find name"
  /\ LET name == From(LastOf("/", text) + 1, text)
     IN  Become("trim", strcpy_sx(PATH_MAX_LENGTH, WithoutLib(name)))
  /\ UNCHANGED <<position, path, passed>>

UpTo(c, s) == IF First(c, s) = 0 THEN s ELSE SubSeq(s, 1, First(c, s) - 1)

\* Faulty variant: only the last extension is trimmed.
TrimLastExtension ==
  /\ pc = "trim"
  /\ Become("replace", IF LastOf(".", text) = 0 THEN text
                       ELSE SubSeq(text, 1, LastOf(".", text) - 1))
  /\ UNCHANGED <<position, path, passed>>

TrimExtensions ==
  /\ pc = "trim"
  /\ Become("replace", UpTo(".", text))
  /\ UNCHANGED <<position, path, passed>>

\* One round of the loop; dash_pos moves on.
NextDash ==
  LET i == First("-", From(position, text)) IN IF i = 0 THEN 0 ELSE position + i - 1

\* Faulty variant: the dash is left in place and found again.
ReplaceDashNot ==
  /\ pc = "replace"
  /\ NextDash # 0
  /\ Become("replace", text)
  /\ position' = NextDash
  /\ UNCHANGED <<path, passed>>

ReplaceDash ==
  /\ pc = "replace"
  /\ NextDash # 0
  /\ Become("replace", [text EXCEPT ![NextDash] = Underscore])
  /\ position' = NextDash + 1
  /\ UNCHANGED <<path, passed>>

NoDashLeft ==
  /\ pc = "replace"
  /\ NextDash = 0
  /\ Become("search", text)
  /\ UNCHANGED <<position, path, passed>>
-----------------------------------------------------------------------------
(* evmc_load_and_configure.                                                *)

\* Faulty variant: a token extends to the last delimiter.
TokenToLast(s, delim) ==
  IF LastOf(delim, s) = 0 THEN s ELSE SubSeq(s, 1, LastOf(delim, s) - 1)

\* get_token(s, delim): the token, and where the string is slided to.
Token(s, delim) == UpTo(delim, s)
Slided(s, delim) == IF First(delim, s) = 0 THEN <<>> ELSE From(First(delim, s) + 1, s)

CopyConfig ==
  /\ pc = "configure"
  /\ IF Fits(PATH_MAX_LENGTH, input)
     THEN Become("options", Slided(input, Comma)) /\ path' = Token(input, Comma)
     ELSE Become("refused", text) /\ path' = path
  /\ UNCHANGED <<position, passed>>

PassOption ==
  /\ pc = "options"
  /\ text # <<>>
  /\ LET option == Token(text, Comma)
     IN  passed' = Append(passed, [name |-> Token(option, "="),
                                   value |-> Slided(option, "=")])
  /\ Become("options", Slided(text, Comma))
  /\ UNCHANGED <<position, path>>

NoOptionLeft ==
  /\ pc = "options"
  /\ text = <<>>
  /\ Become("configured", text)
  /\ UNCHANGED <<position, path, passed>>
-----------------------------------------------------------------------------
Done == pc \in {"refused", "search", "configured"} /\ UNCHANGED vars

Step == \/ CheckFileName \/ FindName \/ TrimExtensions \/ ReplaceDash \/ NoDashLeft
        \/ CopyConfig \/ PassOption \/ NoOptionLeft

Next == Step \/ Done

Spec == Init /\ [][Next]_vars /\ WF_vars(Step)
-----------------------------------------------------------------------------
(* The rules of loader.h for the base name, on positions of the file name: *)
(* what follows the last separator and the lib prefix, up to the first     *)
(* dot, each dash an underscore.                                           *)
DocumentedName(filename) ==
  LET Index == DOMAIN filename
      start == CHOOSE i \in Index \cup {Len(filename) + 1} :
                 /\ i = 1 \/ filename[i - 1] = "/"
                 /\ \A j \in Index : j >= i => filename[j] # "/"
      hasLib == /\ start + 2 \in Index
                /\ <<filename[start], filename[start + 1], filename[start + 2]>>
                     = <<"l", "i", "b">>
      begin == IF hasLib THEN start + 3 ELSE start
      size == Cardinality({i \in Index : i >= begin
                             /\ \A j \in begin..i : filename[j] # "."})
  IN  [i \in 1..size |-> IF filename[begin + i - 1] = "-" THEN Underscore
                         ELSE filename[begin + i - 1]]

(* The create function searched for is the one loader.h describes, for     *)
(* every file name shorter than the limit.                                 *)
NameAsDocumented ==
  pc = "search" /\ Len(input) < PATH_MAX_LENGTH => text = DocumentedName(input)

(* The same for every file name evmc_load accepts: only one "longer than   *)
(* the path maximum length" is refused.                                    *)
AcceptedNameAsDocumented == pc = "search" => text = DocumentedName(input)

(* The grammar of loader.h, read backwards: the path and the options, put  *)
(* together with commas, each option with or without "=" if its value is   *)
(* empty, and perhaps a comma at the end, are the configuration string.    *)
Spellings(o) ==
  {o.name \o <<"=">> \o o.value} \cup (IF o.value = <<>> THEN {o.name} ELSE {})

Joined(prefixes, o) ==
  {p \o <<Comma>> \o s : p \in prefixes, s \in Spellings(o)}

Configurations(file, options) ==
  LET withFirst[n \in 0..Len(options)] ==
        IF n = 0 THEN {file} ELSE Joined(withFirst[n - 1], options[n])
  IN  withFirst[Len(options)]

ConfigAsDocumented ==
  pc = "configured" =>
    LET strings == Configurations(path, passed)
    IN  /\ input \in strings \cup {s \o <<Comma>> : s \in strings}
        /\ Comma \notin ToSet(path)
        /\ \A i \in DOMAIN passed :
             /\ "=" \notin ToSet(passed[i].name)
             /\ Comma \notin ToSet(passed[i].name) \cup ToSet(passed[i].value)

(* Both loops end.                                                         *)
Terminates == <>(pc \in {"refused", "search", "configured"})
=============================================================================
