---------------------------- MODULE KellyGrowth ----------------------------
(* The expected logarithmic growth of a bet at full Kelly, for probabilities *)
(* in 64ths and whole odds up to 64, in 64 millionths: exact enough to order *)
(* every two proposals DecisionEngine's runs compare as real numbers would.  *)
EXTENDS Integers

\* Ln[n] is the natural logarithm of n in millionths.
Ln ==
  <<
         0,  693147, 1098612, 1386294, 1609438, 1791759, 1945910, 2079442,
    2197225, 2302585, 2397895, 2484907, 2564949, 2639057, 2708050, 2772589,
    2833213, 2890372, 2944439, 2995732, 3044522, 3091042, 3135494, 3178054,
    3218876, 3258097, 3295837, 3332205, 3367296, 3401197, 3433987, 3465736,
    3496508, 3526361, 3555348, 3583519, 3610918, 3637586, 3663562, 3688879,
    3713572, 3737670, 3761200, 3784190, 3806662, 3828641, 3850148, 3871201,
    3891820, 3912023, 3931826, 3951244, 3970292, 3988984, 4007333, 4025352,
    4043051, 4060443, 4077537, 4094345, 4110874, 4127134, 4143135, 4158883
  >>

LogGrowth(p, odds) ==
  p * (Ln[p] + Ln[odds] - Ln[64])
    + (64 - p) * (Ln[64 - p] + Ln[odds] - Ln[odds - 1] - Ln[64])

=============================================================================
