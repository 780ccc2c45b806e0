---------------------------- MODULE MCSystemInit ----------------------------
EXTENDS SystemInit
MCConds == <<{1}, {2, 3}>>
MCMeets == {{1, 2}}
\* The Shanghai rule's second document lacks the confirm, the Shenzhen one's
\* the match.
MCLacks == <<<<{}, {"confirm"}>>, <<{}, {"match"}>>>>
MCSwitches == {[market |-> 1, validation |-> 0, method |-> 5], [market |-> 0, validation |-> 1, method |-> 2]}
MCKeys == <<"sh", "zcomp", "zweb">>
\* Managed by the web server, by request or for want of a license, and local.
MCModes == {[run |-> "Normal", web |-> TRUE, local |-> FALSE], [run |-> "Mini", web |-> FALSE, local |-> FALSE],
            [run |-> "Normal", web |-> FALSE, local |-> TRUE]}
=============================================================================
