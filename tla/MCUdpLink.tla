------------------------------ MODULE MCUdpLink ------------------------------
(* Model-checking instances of UdpLink.                                    *)
EXTENDS UdpLink

\* An empty message, and one whose body looks like other parts and, with room for two
\* of its pieces, is cut in the third.
MCMsgs == {[body |-> <<"empty">>], [body |-> <<"number", "time", "word", "empty">>]}

MCDns == [h \in {"daq01", "localhost", "mcast"} |->
            CASE h = "daq01" -> "10.0.0.1" [] h = "mcast" -> "227.128.12.27"
              [] OTHER -> "127.0.0.1"]
MCNumeric == {"127.0.0.1", "0.0.0.0", "227.128.12.27"}
MCInterfaces == <<[address |-> "127.0.0.1", local |-> TRUE, network |-> {"127.0.0.1"}],
                  [address |-> "10.0.0.1", local |-> FALSE, network |-> {"10.0.0.1"}]>>
MCGroup == [form |-> "host", host |-> "227.128.12.27", port |-> 0]
MCAny == [form |-> "host", host |-> "0.0.0.0", port |-> 0]

\* A datagram of another program without the mark.
Stray == <<[of |-> "stray", part |-> 1, look |-> "word"]>>
MCHasMark(d) == d # Stray
MCStray == {Stray}

MCIncoming == Foreign \cup {Datagram[m] : m \in Msgs}

\* A line for the system's log, as the receiver's messages call its input: marked,
\* with separators, but without a time stamp.
LogLine == <<[of |-> "stray", part |-> 1, look |-> "word"],
             [of |-> "stray", part |-> 2, look |-> "word"]>>
MCLogLine == {LogLine}
=============================================================================
