---------------------------- MODULE MCEofFraming ----------------------------
EXTENDS EofFraming, TLC

\* Three characters stand for the six of </EOF>; "x" for all the others.
MCEof == <<"<", "E", ">">>
MCAlphabet == {"<", "E", ">", "x"}
=============================================================================
