---------------------------- MODULE MCDirSession ----------------------------
(* Small conversations of the directory server for TLC.                    *)
EXTENDS DirSession

MCDirs == {"a", "b"}
MCChars == {"a", "b", "x", "y", "z", NL, CR, Close}
MCEntries == [d \in MCDirs |-> IF d = "a" THEN <<"x", "y">> ELSE <<>>]

\* Present, empty and missing directories; an empty name; a carriage return;
\* two lines in one argument; the closing line as an argument.
MCArgLists ==
  { << <<"a">>, <<"b">>, <<"z">> >>,
    << <<>>, <<"a">> >>,
    << <<"a", "\r", "z">>, <<"b">> >>,
    << <<"a", "\n", "b">>, <<"z">> >>,
    << <<"b">>, <<"//close">>, <<"a">> >> }
=============================================================================
