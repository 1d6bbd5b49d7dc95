------------------------------- MODULE Startup -------------------------------
(***************************************************************************)
(* What main makes of the command line and of the configuration file: it   *)
(* reads the options one by one, Config::Read reads the file word by word, *)
(* then main puts the two together, refuses to run, or builds the link     *)
(* object of one mode and one type.                                        *)
(***************************************************************************)
EXTENDS Naturals, Sequences, SequencesExt

CONSTANTS
  CommandLines,  \* sequences of arguments (strings)
  Files,         \* sequences of words of the file
  Numbers,       \* the strings lexical_cast<unsigned> takes -> their value modulo 2^32
  IntTexts       \* those of them that lexical_cast<int> takes

\* A string that is not there: no argument, no value, not set.
NoText == ""

\* Arguments and words are strings.  lexical_cast throws on an empty string; what
\* it makes of a number goes into an int, and whatever fits an int fits an
\* unsigned int modulo 2^32.
Words == [form : {"comment", "item", "bare"}, key : STRING, value : STRING, behind : BOOLEAN]
StartupAssumption ==
  /\ CommandLines \subseteq Seq(STRING) /\ Files \subseteq Seq(Words)
  /\ NoText \notin DOMAIN Numbers
  /\ \A text \in DOMAIN Numbers : Numbers[text] \in Nat
  /\ IntTexts \subseteq DOMAIN Numbers
ASSUME StartupAssumption

\* A word of the file: "comment" begins with #, "item" is key=value, "bare" has
\* no equals sign.  It is "behind" when a comment sign stands before it in its
\* line, of which Read knows nothing.
Comment == [form |-> "comment", key |-> NoText, value |-> NoText, behind |-> FALSE]
Item(k, v) == [form |-> "item", key |-> k, value |-> v, behind |-> FALSE]
Bare(k) == [form |-> "bare", key |-> k, value |-> k, behind |-> FALSE]
Behind(word) == [word EXCEPT !.behind = TRUE]

VARIABLES
  stage,    \* "options", "file", "settings", "running" or "exit" (return -1)
  argv,     \* the arguments left
  line,     \* history: the whole command line
  options,  \* what the options have set
  words,    \* the words of the file left
  file,     \* history: the whole file
  items,    \* Config::_items: a set of keys with their values
  wide,     \* size_t is wider than unsigned int in this build
  found,    \* the host name leads to a local address
  link      \* mode, type, address and port of the link object; or none of them

vars == <<stage, argv, line, options, words, file, items, wide, found, link>>

NoOptions == [mode |-> NoText, addr |-> NoText, port |-> 0, localip |-> FALSE]
NoLink == [mode |-> NoText, type |-> NoText, addr |-> NoText, port |-> 0]

\* An unsigned short holds these.
Ports == 0 .. 65535

\* The enumerators of ETunnelType that main builds a link for.
Built == {"UDP", "DTLS", "TCP", "TLS"}

TypeOK ==
  /\ stage \in {"options", "file", "settings", "running", "exit"}
  /\ IsSuffix(argv, line) /\ IsSuffix(words, file)
  /\ options.mode \in {NoText, "client", "server"} /\ options.port \in Nat
  /\ {link.mode} \subseteq {NoText, "client", "server"}
  /\ link.type \in Built \cup {NoText}
  /\ link.port \in Ports

Init ==
  /\ stage = "options"
  /\ line \in CommandLines /\ argv = line
  /\ file \in Files /\ words = file
  /\ options = NoOptions
  /\ items = <<>>
  /\ wide \in BOOLEAN /\ found \in BOOLEAN
  /\ link = NoLink

-----------------------------------------------------------------------------
(* The options. *)

Exit == stage' = "exit"

\* One option and its value.  An invalid mode ends the program; a port that is
\* no number is ignored.
Take(name, value) ==
  \/ /\ name = "-m" /\ value \in {"c", "s"}
     /\ options' = [options EXCEPT !.mode = IF value = "c" THEN "client" ELSE "server"]
     /\ UNCHANGED stage
  \/ name = "-m" /\ value \notin {"c", "s"} /\ Exit /\ UNCHANGED options
  \/ name = "-h" /\ options' = [options EXCEPT !.addr = value] /\ UNCHANGED stage
  \/ name = "-localip" /\ options' = [options EXCEPT !.localip = TRUE] /\ UNCHANGED stage
  \/ /\ name = "-p"
     /\ options' = [options EXCEPT
                      !.port = IF value \in DOMAIN Numbers THEN Numbers[value] ELSE @]
     /\ UNCHANGED stage

\* Options whose value this module has no use for.
Ignored == {"-v", "-l", "-publicip", "-logfile"}
Known == {"-m", "-h", "-p", "-localip"} \cup Ignored

\* One round of the loop.  After -f its value is compared in the same round with
\* the other options.  An option without a value moves on to argv[argc], a null
\* pointer: the string made of it for the next comparison throws; behind -logfile
\* there is no next comparison.
ReadOption ==
  /\ stage = "options" /\ argv # <<>>
  /\ LET rest == IF Head(argv) = "-f" /\ Len(argv) > 1 THEN Tail(argv) ELSE argv
         name == Head(rest)
         lost == argv = <<"-f">> \/ (name \in Known \ {"-logfile"} /\ Len(rest) = 1)
         taken == name \in Known /\ Len(rest) > 1 IN
     \/ lost /\ Exit /\ UNCHANGED <<argv, options>>
     \/ /\ taken
        /\ IF name \in Ignored THEN UNCHANGED <<stage, options>> ELSE Take(name, rest[2])
        /\ argv' = SubSeq(rest, 3, Len(rest))
     \/ /\ ~lost /\ ~taken
        /\ argv' = Tail(rest)
        /\ UNCHANGED <<stage, options>>
  /\ UNCHANGED <<line, words, file, items, wide, found, link>>

OptionsRead ==
  /\ stage = "options" /\ argv = <<>>
  /\ stage' = "file"
  /\ UNCHANGED <<argv, line, options, words, file, items, wide, found, link>>

-----------------------------------------------------------------------------
(* The file. *)

Set(k, v) ==
  items' = [key \in DOMAIN items \cup {k} |-> IF key = k THEN v ELSE items[key]]

\* Config::Read, one word: operator>> stops at any white space, so a comment
\* ends with its first word.  The position of "=" is an unsigned int; where
\* size_t is wider it never equals npos, and a word without "=" becomes a key
\* with itself as its value.
ReadWord ==
  /\ stage = "file" /\ words # <<>>
  /\ words' = Tail(words)
  /\ LET word == Head(words) IN
     \/ word.form = "item" /\ Set(word.key, word.value)
     \/ word.form = "bare" /\ wide /\ Set(word.key, word.key)
     \/ word.form = "bare" /\ ~wide /\ UNCHANGED items
     \/ word.form = "comment" /\ UNCHANGED items
  /\ UNCHANGED <<stage, argv, line, options, file, wide, found, link>>

FileRead ==
  /\ stage = "file" /\ words = <<>>
  /\ stage' = "settings"
  /\ UNCHANGED <<argv, line, options, words, file, items, wide, found, link>>

ValueString(k) == IF k \in DOMAIN items THEN items[k] ELSE NoText

\* lexical_cast throws on a value that is no number, or none that fits.
IntThrows(k) == k \in DOMAIN items /\ items[k] \notin IntTexts
ValueInt(k) == IF k \in DOMAIN items THEN Numbers[items[k]] ELSE 0

-----------------------------------------------------------------------------
(* The settings. *)

Mode ==
  IF options.mode # NoText THEN options.mode
  ELSE IF ValueString("mode") \in {"client", "server"} THEN ValueString("mode") ELSE NoText

\* The values tls and tcp select each other.
TypeNames == [udp |-> "UDP", dtls |-> "DTLS", tls |-> "TCP", tcp |-> "TLS",
              http |-> "HTTP", https |-> "HTTPS", websockets |-> "WEBSOCKETS"]
Type == IF ValueString("type") \in DOMAIN TypeNames THEN TypeNames[ValueString("type")]
        ELSE NoText

HasLocalIP == options.localip \/ ValueString("localip") # NoText \/ found

\* A mutant of PortThrows: the file's port is read whether it is needed or not.
PortThrowsUnused == IntThrows("tunnelserverport")

PortThrows == options.port = 0 /\ IntThrows("tunnelserverport")
Port == IF options.port # 0 THEN options.port ELSE ValueInt("tunnelserverport")

\* A mutant of Addr: the file comes first.
AddrOfFile ==
  IF ValueString("tunnelserveraddr") # NoText THEN ValueString("tunnelserveraddr")
  ELSE options.addr

Addr == IF options.addr # NoText THEN options.addr ELSE ValueString("tunnelserveraddr")

\* main returns -1 before or instead of building a link.
Refuses ==
  \/ Type = NoText \/ ~HasLocalIP
  \/ PortThrows \/ (~PortThrows /\ Port = 0)
  \/ Mode = NoText \/ (Mode = "client" /\ Addr = NoText)
  \/ Type \notin Built

\* A mutant of LinkPort: the port is kept as it was read.
LinkPortUncut(port) == port

\* The constructors of the links take an unsigned short.
LinkPort(port) == port % 65536

Start ==
  /\ stage = "settings"
  /\ \/ Refuses /\ Exit /\ UNCHANGED link
     \/ /\ ~Refuses
        /\ stage' = "running"
        /\ link' = [mode |-> Mode, type |-> Type, port |-> LinkPort(Port),
                    addr |-> IF Mode = "client" THEN Addr ELSE NoText]
  /\ UNCHANGED <<argv, line, options, words, file, items, wide, found>>

Next == ReadOption \/ OptionsRead \/ ReadWord \/ FileRead \/ Start

Spec == Init /\ [][Next]_vars

-----------------------------------------------------------------------------
(* Properties. *)

\* What stands behind the last name in the command line, and in the file behind
\* the last setting of key: a word key=value outside comments; NoText without one.
Given(name) ==
  LET at == SelectLastInSeq(line, LAMBDA a : a = name) IN
  IF at \in 1 .. Len(line) - 1 THEN line[at + 1] ELSE NoText
IsSetting(word, key) == word.form = "item" /\ ~word.behind /\ word.key = key
Written(key) ==
  LET at == SelectLastInSeq(file, LAMBDA w : IsSetting(w, key)) IN
  IF at # 0 THEN file[at].value ELSE NoText
NumberOf(text) == IF text \in DOMAIN Numbers THEN Numbers[text] ELSE 0

\* A word that sets key for Read though it is no setting of it: it stands in a
\* comment, or has no equals sign; and no setting of key comes after it.
IsStray(word, key) ==
  /\ word.key = key
  /\ (word.form = "item" /\ word.behind) \/ (word.form = "bare" /\ wide)
Misread(key) ==
  \E i \in DOMAIN file : /\ IsStray(file[i], key)
                         /\ \A j \in i + 1 .. Len(file) : ~IsSetting(file[j], key)

\* The command line is made of options and their values, none taken for the
\* other; every mode is c or s and every port a number.
Careful ==
  /\ \A i \in DOMAIN line : line[i] \in Known \cup {"-f"} <=> i % 2 = 1
  /\ Len(line) % 2 = 0
  /\ \A i \in DOMAIN line : /\ line[i] = "-p" => line[i + 1] \in DOMAIN Numbers
                            /\ line[i] = "-m" => line[i + 1] \in {"c", "s"}

\* What main is told: the last option, else the last setting in the file.
ToldMode == CASE Given("-m") = "c" -> "client"
              [] Given("-m") = "s" -> "server"
              [] OTHER -> Written("mode")
ToldAddr == IF Given("-h") # NoText THEN Given("-h") ELSE Written("tunnelserveraddr")
ToldPort == IF NumberOf(Given("-p")) # 0 THEN NumberOf(Given("-p"))
            ELSE NumberOf(Written("tunnelserverport"))

\* A tunnel that runs does what it was told: options come before the file, the
\* last of several before the others, for the mode, the server's address and its
\* port, and comments are skipped (config.cpp:59).  Except that a word in a
\* comment or without an equals sign overrules the settings before it, and that
\* a port over 65535 is cut off.  (Which link tls and tcp mean is another
\* matter: TypeAsConfigured.)
RunsAsTold ==
  stage = "running" /\ Careful =>
    /\ link.mode = ToldMode \/ (Given("-m") = NoText /\ Misread("mode"))
    /\ link.mode = "client" =>
         link.addr = ToldAddr \/ (Given("-h") = NoText /\ Misread("tunnelserveraddr"))
    /\ \/ ToldPort \in Ports => link.port = ToldPort /\ ToldPort # 0
       \/ NumberOf(Given("-p")) = 0 /\ Misread("tunnelserverport")
    /\ \/ /\ Written("type") = "udp" => link.type = "UDP"
          /\ Written("type") = "dtls" => link.type = "DTLS"
       \/ Misread("type")

\* What a tunnel needs: a mode, one of the four types, a client's server, a port
\* that is not 0, from the file one that fits an int, and a local address.
Complete ==
  /\ ToldMode \in {"client", "server"}
  /\ Written("type") \in {"udp", "dtls", "tls", "tcp"}
  /\ ToldMode = "client" => ToldAddr # NoText
  /\ ToldPort # 0
  /\ NumberOf(Given("-p")) # 0 \/ Written("tunnelserverport") \in IntTexts
  /\ \/ \E i \in DOMAIN line : line[i] = "-localip"
     \/ Written("localip") # NoText
     \/ found

Settings == {"mode", "type", "tunnelserverport", "tunnelserveraddr", "localip"}

\* A tunnel that was told all it needs is not refused, wherever it was told and
\* whatever else stands there: nothing but a misread word stops it.
RefusesOnlyIncomplete ==
  stage = "exit" /\ Careful /\ Complete => \E key \in Settings : Misread(key)

\* What "tls (secure tcp)" and "tcp (unsecure)" say: the type the file names is
\* the type of the link.
TypeAsConfigured ==
  stage = "running" =>
    /\ Written("type") = "tls" => link.type = "TLS"
    /\ Written("type") = "tcp" => link.type = "TCP"
=============================================================================
