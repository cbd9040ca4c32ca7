------------------------------ MODULE MCKeypad ------------------------------
EXTENDS Keypad

\* One key in each half of the pins; the power key is active low with KEY_DEFINE_TOUCH_PAD.
MCGpio == [k \in Key |-> IF k = 0 THEN 11 ELSE 28]
MCPin == {11, 28}
MCActiveHigh == {1}

\* Long enough for three clicks of the first key and for one of the second.
Times(first, second) == [k \in Key |-> IF k = 0 THEN first ELSE second]
MCMulti == Times(25, 10)
MCPress == Times(6, 4)
MCLong == Times(4, 5)
MCLonglong == Times(5, 6)
=============================================================================
