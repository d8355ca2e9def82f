-------------------------------- MODULE MCCli --------------------------------
EXTENDS Cli

Item(tag, value) == [tag |-> tag, value |-> value]

\* A key, a keyboard, and a descriptor cut off.
MCContents ==
    [token |-> <<Item("page", FidoPage), Item("usage", CtapHidUsage), Item("output", 0)>>,
     keyboard |-> <<Item("page", 1), Item("usage", 6), Item("output", 0)>>,
     torn |-> <<Item("page", FidoPage), Item("cut", 0)>>]

MCNodes == <<"hidraw0", "hidraw2">>
MCReaders == <<"reader0", "reader1">>

\* Each way the parser fails, and each command with the flags that matter to it.
MCArgvs ==
    {<<>>, <<"help">>, <<"gibberish">>, <<"list">>, <<"list", "--first">>,
     <<"info">>, <<"info", "--device", "hidraw2">>, <<"info", "--device">>,
     <<"info", "--budget", "0">>, <<"info", "--rp", "site">>,
     <<"assert", "--rp", "site">>, <<"assert", "--first">>,
     <<"assert", "--first", "--rp", "site", "--allow", "ab">>,
     <<"assert", "--allow", "xyz", "--rp", "site">>,
     <<"assert", "--rp", "site", "--demo", "--budget", "45">>}

MCErrors == {"Timeout", "Ctap"}
=============================================================================
