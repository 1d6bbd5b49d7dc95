----------------------------- MODULE MCStartup -----------------------------
(***************************************************************************)
(* Startup for TLC: command lines of up to two options and some careless   *)
(* ones, files with some or all of the settings, with comments among them. *)
(***************************************************************************)
EXTENDS Startup

\* nBig stands for a number over 2147483647, which only an unsigned int holds.
MCNumbers == [n5000 |-> 5000, n5001 |-> 5001, n5002 |-> 5002, n65536 |-> 65536,
              nBig |-> 70000, n0 |-> 0]
MCIntTexts == DOMAIN MCNumbers \ {"nBig"}

Pairs == {<<"-m", "c">>, <<"-m", "s">>, <<"-m", "x">>, <<"-h", "hostA">>,
          <<"-p", "n5000">>, <<"-p", "n65536">>, <<"-p", "nBig">>, <<"-p", "word">>,
          <<"-localip", "ip">>, <<"-f", "name">>, <<"-l", "n5000">>}
CarelessLines == {<<"-m">>, <<"-h", "-p", "n5000">>, <<"-f", "-m", "c">>, <<"-f">>,
                  <<"-f", "-f">>, <<"-f", "-f", "-m", "s">>, <<"-localip", NoText>>,
                  <<"name", "-m", "s">>, <<"-m", "c", "-logfile">>, <<"-logfile", "-m", "c">>}
MCCommandLines == {FlattenSeq(s) : s \in SeqOf(Pairs, 2)} \cup CarelessLines

\* A file with these settings; the port may be written twice.
File(mode, type, port, addr) == mode \o type \o port \o addr
Full == File(<<Item("mode", "client")>>, <<Item("type", "tls")>>,
             <<Item("tunnelserverport", "n5001")>>, <<Item("tunnelserveraddr", "hostB")>>)

\* The words of a line that begins with a comment sign.
CommentLine(rest) == <<Comment>> \o [i \in DOMAIN rest |-> Behind(rest[i])]

\* The file that comes with the program, without the settings main does not read.
Shipped == CommentLine(<<Bare("tunnel"), Bare("configuration")>>)
             \o <<Item("mode", "client"), Comment, Comment, Item("type", "tls"),
                  Item("tunnelserveraddr", "hostB"), Item("tunnelserverport", "n5000"),
                  Comment, Comment>>

MCFiles ==
  {File(mode, type, port, addr) :
     mode \in {<<>>, <<Item("mode", "client")>>},
     type \in {<<>>, <<Item("type", "udp")>>, <<Item("type", "tcp")>>, <<Item("type", "http")>>},
     port \in {<<>>, <<Item("tunnelserverport", "word")>>,
               <<Item("tunnelserverport", "n5001"), Item("tunnelserverport", "n5002")>>},
     addr \in {<<>>, <<Item("tunnelserveraddr", "hostB")>>}}
    \cup {Shipped}
    \cup {Full \o more : more \in
            {CommentLine(<<Item("mode", "server")>>), CommentLine(<<Bare("mode")>>),
             CommentLine(<<Item("mode", "server")>>) \o <<Item("mode", "client")>>,
             CommentLine(<<Item("tunnelserveraddr", "hostC")>>),
             CommentLine(<<Item("tunnelserverport", "nBig")>>),
             <<Item("localip", "ip")>> \o CommentLine(<<Item("localip", NoText)>>),
             <<Bare("type"), Item(NoText, NoText), Bare("dtls")>>,
             <<Item("tunnelserverport", "nBig")>>, <<Item("tunnelserverport", "n65536")>>,
             <<Item("localip", "ip")>>, <<Item("localip", NoText)>>, <<Item("type", "dtls")>>}}
=============================================================================
