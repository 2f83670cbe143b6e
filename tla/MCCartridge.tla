----------------------------- MODULE MCCartridge -----------------------------
EXTENDS Cartridge

MCCell == 0..7
MCAddrBits == [t \in {"Eeprom512", "Eeprom8k"} |-> IF t = "Eeprom512" THEN 1 ELSE 3]
MCWords == [t \in {"Eeprom512", "Eeprom8k"} |-> IF t = "Eeprom512" THEN 2 ELSE 4]
MCGameAddresses == [t \in {"Eeprom512", "Eeprom8k"} |-> IF t = "Eeprom512" THEN {0, 1} ELSE {1, 3}]
MCGameWords == [t \in {"Eeprom512", "Eeprom8k"} |-> [a \in MCGameAddresses[t] |-> IF a = 1 THEN {2, 5} ELSE {2}]]

MCClocks == {[year |-> 2024, month |-> 12, day |-> 31, weekday |-> 2, hour |-> 23, minute |-> 59, second |-> 58],
             [year |-> 2025, month |-> 1, day |-> 9, weekday |-> 4, hour |-> 0, minute |-> 10, second |-> 40]}
=============================================================================
