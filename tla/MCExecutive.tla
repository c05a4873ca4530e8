---------------------------- MODULE MCExecutive ----------------------------
(***************************************************************************)
(* An instance of Executive for TLC: two plugins, two environments and the *)
(* one that stands for none, and scripts that ask for what there is not.   *)
(***************************************************************************)
EXTENDS Executive

CONSTANTS d1, d2

MCEnvironments == <<"a", "b", NoEnvironment>>
MCDevices == [e \in {"a", "b"} |-> IF e = "a" THEN <<d1, d2>> ELSE <<>>]

\* A benchmark that needs a device and has a default with two manifestations,
\* and one that runs without a device.
MCBenchmarks ==
    [p \in {1, 3} |->
        IF p = 1
        THEN [b \in {1} |->
                 [defaults |-> <<Factor("data_set", <<"x">>), Factor("method", <<"m", "n">>)>>,
                  expensive |-> <<"data_set", "frame", "device">>,
                  devices |-> {d1, d2}]]
        ELSE [b \in {1, 2} |->
                 [defaults |-> <<Factor("pattern", <<"p">>)>>,
                  expensive |-> <<>>,
                  devices |-> {NoDevice, d1}]]]

Job(p, b, factors) == [plugin |-> p, benchmark |-> b, configs |-> factors]

MCScripts ==
    {<<Job(3, 1, <<Factor("environment", <<"b", "z">>)>>),
       Job(1, 1, <<Factor("data_set", <<"x", "y">>), Factor("frame", <<"1", "2", "3">>)>>),
       Job(4, 1, <<>>),
       Job(3, 2, <<Factor("size", <<"s", "l">>)>>)>>,
     <<Job(3, 1, <<>>),
       Job(1, 1, <<Factor("device", <<d2, "w">>), Factor("frame", <<"1", "2">>),
                   Factor("data_set", <<"x", "y">>), Factor("method", <<"n">>)>>),
       Job(1, 7, <<>>),
       Job(0, 1, <<>>),
       Job(2, 1, <<>>),
       Job(3, 1, <<Factor("pattern", <<"p", "q">>)>>)>>}
=============================================================================
