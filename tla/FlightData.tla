----------------------------- MODULE FlightData -----------------------------
(***************************************************************************)
(* flightscrape's getFlightData(): it asks for the page of a flight and    *)
(* makes flightData from the panels it finds there; strToDate() turns the  *)
(* 12-hour times into dates.  A moment is a number of minutes since        *)
(* midnight UTC of the flight's day; the page shows it by the clock of the *)
(* airport's zone.  Names and the status are left out.                     *)
(***************************************************************************)
EXTENDS Integers

CONSTANTS
    Zone,       \* zones of airports
    Offset,     \* the minutes by which the clocks of a zone are ahead of UTC
    Known,      \* the zones whose abbreviation JavaScript's Date understands
    Time,       \* departure times, in minutes since midnight at the airport
    Duration,   \* durations of flights, in minutes
    Delay       \* delays, in minutes

ASSUME FlightAssumption ==
    /\ Offset \in [Zone -> Int]
    /\ Known \subseteq Zone
    /\ Time \subseteq 0..1439
    /\ Duration \subseteq Nat
    /\ Delay \subseteq Nat

VARIABLES
    state,      \* of the request: and "typeError" for an uncaught exception
    flight,     \* the flight as it is
    page,       \* the panels of its page
    data        \* flightData

flightVars == <<state, flight, page, data>>

-----------------------------------------------------------------------------
Field == {"scheduledDeparture", "estimatedDeparture", "scheduledArrival", "estimatedArrival"}

\* track-panel-date, track-panel-course (both estimated times), the two
\* track-panel-scheduledtime, and an airport whose link has no title.
Panel == {"date", "course", "departure", "arrival", "untitled"}

Flight == [time : Time, from : Zone, to : Zone, duration : Duration, delay : Delay]

\* An invalid Date, and the new Date(0) that flightData starts with.
Invalid == [is |-> "invalid", at |-> 0]

Unset == [is |-> "unset", at |-> 0]

DateOf(minutes) == [is |-> "date", at |-> minutes]

\* The moments of a flight, and the zone of the airport each belongs to.
Moment(f, k) ==
    (f.time - Offset[f.from])
      + (IF k \in {"scheduledArrival", "estimatedArrival"} THEN f.duration ELSE 0)
      + (IF k \in {"estimatedDeparture", "estimatedArrival"} THEN f.delay ELSE 0)

Place(f, k) == IF k \in {"scheduledDeparture", "estimatedDeparture"} THEN f.from ELSE f.to

\* Minutes since midnight of the flight's day by the local clock.
Local(f, k) == Moment(f, k) + Offset[Place(f, k)]

\* What the page shows of field k.
Shown(f, k) ==
    LET m == Local(f, k) % 1440
    IN  [hour |-> IF (m \div 60) % 12 = 0 THEN 12 ELSE (m \div 60) % 12,
         minute |-> m % 60,
         half |-> IF m < 720 THEN "A" ELSE "P",
         zone |-> Place(f, k)]

\* Mutant: an hour before noon is taken to be after it.
StrToDate_HalfSwapped(s, p) ==
    IF "date" \in p /\ s.zone \in Known
    THEN DateOf((60 * (s.hour + (IF s.half = "A" THEN 12 ELSE 0)) + s.minute) - Offset[s.zone])
    ELSE Invalid

\* strToDate(): setHours(24) is midnight of the next day, and a missing day or a
\* zone that Date does not know make the date invalid.
StrToDate(s, p) ==
    IF "date" \in p /\ s.zone \in Known
    THEN DateOf((60 * (s.hour + (IF s.half = "P" THEN 12 ELSE 0)) + s.minute) - Offset[s.zone])
    ELSE Invalid

\* The field whose time is read for field k: the counter i of the scheduled times
\* gives the first one there is to the departure.
Source(p, k) ==
    IF k = "scheduledDeparture" /\ "departure" \notin p THEN "scheduledArrival" ELSE k

\* The panel that field k is filled in from.
Fills(p, k) ==
    \/ k \in {"estimatedDeparture", "estimatedArrival"} /\ "course" \in p
    \/ k = "scheduledDeparture" /\ ("departure" \in p \/ "arrival" \in p)
    \/ k = "scheduledArrival" /\ "departure" \in p /\ "arrival" \in p

Scraped(f, p) ==
    [k \in Field |-> IF Fills(p, k) THEN StrToDate(Shown(f, Source(p, k)), p) ELSE Unset]

-----------------------------------------------------------------------------
NoData == [k \in Field |-> Unset]

FlightTypeOK ==
    /\ state \in {"idle", "requested", "failed", "printed", "typeError"}
    /\ flight \in Flight
    /\ page \subseteq Panel
    /\ data \in [Field -> [is : {"unset", "invalid", "date"}, at : Int]]

FlightInit ==
    /\ state = "idle"
    /\ flight \in Flight
    /\ page \in SUBSET Panel
    /\ data = NoData

\* getFlightData() returns as soon as it has sent the request.
Request ==
    /\ state = "idle"
    /\ state' = "requested"
    /\ UNCHANGED <<flight, page, data>>

\* An error is not reported to anybody.
Fail ==
    /\ state = "requested"
    /\ state' = "failed"
    /\ UNCHANGED <<flight, page, data>>

\* The callback with the page: an airport without title ends the program.
Respond ==
    /\ state = "requested"
    /\ \/ "untitled" \in page /\ state' = "typeError" /\ UNCHANGED data
       \/ "untitled" \notin page /\ state' = "printed" /\ data' = Scraped(flight, page)
    /\ UNCHANGED <<flight, page>>

FlightNext == Request \/ Fail \/ Respond

FlightSpec == FlightInit /\ [][FlightNext]_flightVars

-----------------------------------------------------------------------------
(* Properties                                                              *)

\* A date is wrong by what strToDate() does wrong and by nothing else: the days
\* that passed since the flight's day are lost, and in the hour of twelve on the
\* clock, at noon and at midnight, the date is twelve hours late.
ErrorIsTwelveOrDays ==
    \A k \in Field :
        data[k].is = "date" =>
            LET source == Source(page, k)
                local  == Local(flight, source)
            IN  data[k].at = (Moment(flight, source) - 1440 * (local \div 1440))
                               + (IF (local \div 60) % 12 = 0 THEN 720 ELSE 0)

\* A field has a date only if its panel and the day were on the page and its zone
\* is a known one; a departure may have the time of the arrival, never the other
\* way round.
DatesNeedTheirPanels ==
    \A k \in Field :
        data[k].is = "date" => /\ "date" \in page
                               /\ Place(flight, Source(page, k)) \in Known
                               /\ k = "scheduledArrival" => {"departure", "arrival"} \subseteq page

\* The dates of a page are wrong only in the two ways that strToDate() makes them wrong, and
\* come from their own panels (getFlightData()).
FlightSafe ==
    /\ FlightTypeOK
    /\ ErrorIsTwelveOrDays
    /\ DatesNeedTheirPanels
=============================================================================
