------------------------------ MODULE MCPanel ------------------------------
(* A small instance of PanelClients. *)
EXTENDS PanelClients

MCClient == Programs
MCPin == 0 .. 5
MCChars == <<<<4, 8>>, <<6, 5>>, <<2, 1>>>>
\* Everyday use; the whole text on the LCD; and four programs on pin 0.
MCScenes ==
  {[clients |-> {"port", "button", "led"}, turn |-> <<>>,
    script |-> 0, guest |-> 2, presses |-> 2, stops |-> TRUE],
   [clients |-> {"lcdwrite", "lcd"}, turn |-> <<>>,
    script |-> Len(Script), guest |-> 0, presses |-> 0, stops |-> FALSE],
   [clients |-> {"port", "button", "led", "lcdwrite"}, turn |-> <<"lcdwrite", "port", "led", "button">>,
    script |-> 6, guest |-> 1, presses |-> 0, stops |-> FALSE]}
\* An LED beside two programs that drive its pin.
ContentionScenes ==
  {[clients |-> {"port", "led", "lcdwrite"}, turn |-> <<>>,
    script |-> 6, guest |-> 1, presses |-> 0, stops |-> FALSE]}
MCGuestRegs == {{}, {0}, {1}}
=============================================================================
