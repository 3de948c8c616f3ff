----------------------------- MODULE Parseline -----------------------------
(***************************************************************************)
(* How the shell reads its input: the loop of main takes a line, parseline *)
(* cuts it into arguments, files and the kind of the command.  What eval   *)
(* does with them is the subject of module Tsh.                            *)
(*                                                                         *)
(* A text is a sequence of symbols.  A letter stands for any run of        *)
(* characters that parseline does not look at.                             *)
(***************************************************************************)
EXTENDS Naturals, Sequences, SequencesExt, FiniteSetsExt

CONSTANTS
  Inputs,        (* what the standard input may hold                        *)
  MAXLINE_TSH,   (* the size of a command line                              *)
  MAXARGS        (* the size of argv                                        *)

ASSUME ParselineAssumption == MAXLINE_TSH \in Nat \ {0, 1} /\ MAXARGS \in Nat \ {0, 1}

VARIABLES
  at,            (* "off", "read", "parse", "eval" or "exit"                *)
  stdin,         (* what has not been read yet                              *)
  cmdline,
  buf,           (* the position parseline has come to                      *)
  parsing_state, (* ST_NORMAL, or the symbol whose file comes next          *)
  argv,
  file,          (* infile is file["<"], outfile file[">"]: <<>> if NULL    *)
  result         (* what parseline has returned                             *)

parseVars == <<at, stdin, cmdline, buf, parsing_state, argv, file, result>>

Newline == "\n"
Blank == {" ", "\t"}
Quote == {"'", "\""}
Redirection == {"<", ">"}
BUILTIN == {"quit", "jobs", "bg", "fg"}

ParseInit ==
  /\ at = "off" /\ stdin = <<>> /\ cmdline = <<>> /\ buf = 1
  /\ parsing_state = "ST_NORMAL" /\ argv = <<>>
  /\ file = [c \in Redirection |-> <<>>] /\ result = "none"

StartShell ==
  /\ at = "off"
  /\ at' = "read"
  /\ stdin' \in Inputs
  /\ UNCHANGED <<cmdline, buf, parsing_state, argv, file, result>>

-----------------------------------------------------------------------------
(* The loop of main                                                        *)

(* Where fgets stops, if the input goes that far.                          *)
LineEnd == Min({i \in DOMAIN stdin : stdin[i] = Newline} \cup {MAXLINE_TSH - 1})

ReadLine ==
  /\ at = "read"
  /\ LineEnd <= Len(stdin)
  /\ LET line == SubSeq(stdin, 1, LineEnd)
     IN  cmdline' = IF Last(line) = Newline THEN Front(line) ELSE line
  /\ stdin' = SubSeq(stdin, LineEnd + 1, Len(stdin))
  /\ at' = "parse"
  /\ buf' = 1 /\ parsing_state' = "ST_NORMAL" /\ argv' = <<>>
  /\ file' = [c \in Redirection |-> <<>>] /\ result' = "none"

(* feof: a last line without its end is not evaluated.                     *)
EndOfFile ==
  /\ at = "read"
  /\ LineEnd > Len(stdin)
  /\ at' = "exit"
  /\ UNCHANGED <<stdin, cmdline, buf, parsing_state, argv, file, result>>

builtin == IF argv[1] \in {<<b>> : b \in BUILTIN} THEN argv[1][1] ELSE "none"

Eval ==
  /\ at = "eval"
  /\ at' = IF result \in {"FG", "BG"} /\ builtin = "quit" THEN "exit" ELSE "read"
  /\ UNCHANGED <<stdin, cmdline, buf, parsing_state, argv, file, result>>

-----------------------------------------------------------------------------
(* parseline: a turn of its loop is a step                                 *)

End == Len(cmdline) + 1

(* The next symbol that is not a blank.                                    *)
Start == Min({i \in buf .. Len(cmdline) : cmdline[i] \notin Blank} \cup {End})

Returns(r) == at' = "eval" /\ result' = r

Redirect ==
  /\ at = "parse" /\ Start < End
  /\ cmdline[Start] \in Redirection
  /\ IF file[cmdline[Start]] # <<>>
     THEN Returns("ERROR") /\ UNCHANGED <<buf, parsing_state>>
     ELSE /\ parsing_state' = cmdline[Start]
          /\ buf' = Start + 1
          /\ UNCHANGED <<at, result>>
  /\ UNCHANGED <<stdin, cmdline, argv, file>>

(* The ends of a token that may begin at Start.                            *)
Quoted == cmdline[Start] \in Quote
Ends == IF Quoted
        THEN {i \in Start + 1 .. Len(cmdline) : cmdline[i] = cmdline[Start]}
        ELSE {i \in Start .. Len(cmdline) : cmdline[i] \in Blank} \cup {End}

Unmatched ==
  /\ at = "parse" /\ Start < End
  /\ cmdline[Start] \notin Redirection
  /\ Ends = {}
  /\ Returns("ERROR")
  /\ UNCHANGED <<stdin, cmdline, buf, parsing_state, argv, file>>

(* Mutated form: after a file the next token is a file again.              *)
TokenKeepsState ==
  /\ at = "parse" /\ Start < End
  /\ cmdline[Start] \notin Redirection
  /\ Ends # {}
  /\ LET text == SubSeq(cmdline, IF Quoted THEN Start + 1 ELSE Start, Min(Ends) - 1)
     IN  IF parsing_state = "ST_NORMAL"
         THEN argv' = Append(argv, text) /\ UNCHANGED file
         ELSE file' = [file EXCEPT ![parsing_state] = <<text>>] /\ UNCHANGED argv
  /\ buf' = IF Len(argv') >= MAXARGS - 1 THEN End ELSE Min(Ends) + 1
  /\ UNCHANGED <<at, stdin, cmdline, parsing_state, result>>

Token ==
  /\ at = "parse" /\ Start < End
  /\ cmdline[Start] \notin Redirection
  /\ Ends # {}
  /\ LET text == SubSeq(cmdline, IF Quoted THEN Start + 1 ELSE Start, Min(Ends) - 1)
     IN  IF parsing_state = "ST_NORMAL"
         THEN argv' = Append(argv, text) /\ UNCHANGED file
         ELSE file' = [file EXCEPT ![parsing_state] = <<text>>] /\ UNCHANGED argv
  /\ parsing_state' = "ST_NORMAL"
  /\ buf' = IF Len(argv') >= MAXARGS - 1 THEN End ELSE Min(Ends) + 1
  /\ UNCHANGED <<at, stdin, cmdline, result>>

IsAmpersand(text) == text # <<>> /\ text[1] = "&"

(* Behind the loop: what the line is.                                      *)
Classify ==
  /\ at = "parse" /\ Start = End
  /\ argv' = IF parsing_state = "ST_NORMAL" /\ argv # <<>> /\ IsAmpersand(Last(argv))
             THEN Front(argv) ELSE argv
  /\ Returns(CASE parsing_state # "ST_NORMAL" -> "ERROR"
               [] parsing_state = "ST_NORMAL" /\ argv' = <<>> -> "EMPTY"
               [] OTHER -> IF argv' = argv THEN "FG" ELSE "BG")
  /\ UNCHANGED <<stdin, cmdline, buf, parsing_state, file>>

ParseNext ==
  \/ StartShell \/ ReadLine \/ EndOfFile \/ Eval
  \/ Redirect \/ Unmatched \/ Token \/ Classify

ParseSpec == ParseInit /\ [][ParseNext]_parseVars

-----------------------------------------------------------------------------
(* What a line says, told without a parser.  A reading is a set of places  *)
(* at which the line, or its beginning, can be cut into pieces <<i, j>>.   *)

Pieces(cuts) == {<<Max({0} \cup {e \in cuts : e < j}) + 1, j>> : j \in cuts}

IsBlank(p) == p[1] = p[2] /\ cmdline[p[1]] \in Blank
IsRedirection(p) == p[1] = p[2] /\ cmdline[p[1]] \in Redirection
IsQuoted(p) ==
  /\ p[1] < p[2] /\ cmdline[p[1]] \in Quote
  /\ {i \in p[1] + 1 .. p[2] : cmdline[i] = cmdline[p[1]]} = {p[2]}
IsWord(p) ==
  /\ cmdline[p[1]] \notin Quote \cup Redirection
  /\ \A i \in p[1] .. p[2] : cmdline[i] \notin Blank
  /\ p[2] = Len(cmdline) \/ cmdline[p[2] + 1] \in Blank

Tokens(cuts) == {p \in Pieces(cuts) : IsQuoted(p) \/ IsWord(p)}
Readings ==
  {cuts \in SUBSET DOMAIN cmdline :
     \A p \in Pieces(cuts) : IsBlank(p) \/ IsRedirection(p) \/ IsQuoted(p) \/ IsWord(p)}

(* The tokens that stand behind a c, with only blanks between.             *)
Files(cuts, c) ==
  {p \in Tokens(cuts) : \E q \in Pieces(cuts) :
     /\ IsRedirection(q) /\ cmdline[q[1]] = c /\ q[1] < p[1]
     /\ \A r \in Pieces(cuts) : q[1] < r[1] /\ r[1] < p[1] => IsBlank(r)}
Args(cuts) == Tokens(cuts) \ UNION {Files(cuts, c) : c \in Redirection}

(* The line is read to its end, or until argv is full.                     *)
Complete(cuts) ==
  LET last == Max({0} \cup cuts)
      n == Cardinality(Args(cuts))
  IN  \/ last = Len(cmdline) /\ n < MAXARGS - 1
      \/ n = MAXARGS - 1 /\ \E p \in Args(cuts) : p[2] = last

(* No redirection comes last, or after a file of its kind.                 *)
WellFormed(cuts) ==
  \A q \in Pieces(cuts) : IsRedirection(q) =>
    /\ \E p \in Pieces(cuts) : p[1] > q[1] /\ ~IsBlank(p)
    /\ \A p \in Files(cuts, cmdline[q[1]]) : p[1] > q[1]

Text(p) == IF IsQuoted(p) THEN SubSeq(cmdline, p[1] + 1, p[2] - 1)
           ELSE SubSeq(cmdline, p[1], p[2])
Texts(S) == LET inOrder == SetToSortSeq(S, LAMBDA p, q : p[1] < q[1])
            IN  [k \in DOMAIN inOrder |-> Text(inOrder[k])]

(* Whatever the order of words, quotes, redirections and &, parseline      *)
(* accepts the lines that can be read and only those, and returns what was *)
(* typed: each token whole and once, the files apart from the arguments,   *)
(* and a last & as the kind of the command.                                *)
ParsedAsTyped ==
  at = "eval" =>
    LET proper == {cuts \in Readings : Complete(cuts) /\ WellFormed(cuts)}
    IN  /\ result = "ERROR" <=> proper = {}
        /\ \A cuts \in proper :
             LET typed == Texts(Args(cuts))
                 background == typed # <<>> /\ IsAmpersand(Last(typed))
             IN  /\ \A c \in Redirection : file[c] = Texts(Files(cuts, c))
                 /\ argv = IF background THEN Front(typed) ELSE typed
                 /\ result = CASE argv = <<>> -> "EMPTY"
                               [] argv # <<>> /\ background -> "BG"
                               [] OTHER -> "FG"

(* The form that tsh_helper.h gives: each < or > has a file behind it.     *)
RedirectionsNamed ==
  at = "eval" /\ result \in {"FG", "BG"} =>
    \A cuts \in Readings : Complete(cuts) =>
      \A q \in Pieces(cuts) : IsRedirection(q) =>
        \E p \in Files(cuts, cmdline[q[1]]) :
          p[1] = Min({r[1] : r \in {r \in Pieces(cuts) : r[1] > q[1] /\ ~IsBlank(r)}})
=============================================================================
