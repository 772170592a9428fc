---------------------------- MODULE UnicodeData ----------------------------
(***************************************************************************)
(* The tables of libunicode-table.h that the case, identifier and property *)
(* functions and the normalization read, in full.  A packed 32-bit entry   *)
(* is written as its bit fields; bytes and halfwords are as they stand.    *)
(***************************************************************************)
EXTENDS Integers, Sequences

\* case_conv_table1: first character, number of characters, run type and the
\* high four bits of the data.
case_conv_table1 ==
    <<
      <<65,26,3,0>>, <<97,26,0,0>>, <<181,1,7,3>>, <<192,23,3,0>>,
      <<216,7,3,0>>, <<223,1,11,3>>, <<224,23,0,0>>, <<248,7,0,0>>,
      <<255,1,0,0>>, <<256,48,4,0>>, <<304,1,12,3>>, <<305,1,9,0>>,
      <<306,6,4,0>>, <<313,16,4,0>>, <<329,1,11,4>>, <<330,46,4,0>>,
      <<376,1,3,0>>, <<377,6,4,0>>, <<383,1,7,0>>, <<384,1,0,0>>,
      <<385,1,3,0>>, <<386,4,4,0>>, <<390,1,3,0>>, <<391,2,4,0>>,
      <<393,2,3,0>>, <<395,2,4,0>>, <<398,1,3,0>>, <<399,1,3,0>>,
      <<400,1,3,0>>, <<401,2,4,0>>, <<403,1,3,0>>, <<404,1,3,0>>,
      <<405,1,0,0>>, <<406,1,3,0>>, <<407,1,3,0>>, <<408,2,4,0>>,
      <<410,1,0,0>>, <<411,1,0,1>>, <<412,1,3,0>>, <<413,1,3,0>>,
      <<414,1,0,0>>, <<415,1,3,0>>, <<416,6,4,0>>, <<422,1,3,0>>,
      <<423,2,4,0>>, <<425,1,3,0>>, <<428,2,4,0>>, <<430,1,3,0>>,
      <<431,2,4,0>>, <<433,2,3,0>>, <<435,4,4,0>>, <<439,1,3,0>>,
      <<440,2,4,0>>, <<444,2,4,0>>, <<447,1,0,0>>, <<452,3,5,0>>,
      <<455,3,5,0>>, <<458,3,5,0>>, <<461,16,4,0>>, <<477,1,0,0>>,
      <<478,18,4,0>>, <<496,1,11,4>>, <<497,3,5,0>>, <<500,2,4,0>>,
      <<502,1,3,0>>, <<503,1,3,0>>, <<504,40,4,0>>, <<544,1,3,0>>,
      <<546,18,4,0>>, <<570,1,3,1>>, <<571,2,4,0>>, <<573,1,3,0>>,
      <<574,1,3,1>>, <<575,2,0,1>>, <<577,2,4,0>>, <<579,1,3,0>>,
      <<580,1,3,0>>, <<581,1,3,0>>, <<582,10,4,0>>, <<592,1,0,1>>,
      <<593,1,0,1>>, <<594,1,0,1>>, <<595,1,0,0>>, <<596,1,0,0>>,
      <<598,2,0,0>>, <<601,1,0,0>>, <<603,1,0,0>>, <<604,1,0,1>>,
      <<608,1,0,0>>, <<609,1,0,1>>, <<611,1,0,0>>, <<612,1,0,1>>,
      <<613,1,0,1>>, <<614,1,0,1>>, <<616,1,0,0>>, <<617,1,0,0>>,
      <<618,1,0,1>>, <<619,1,0,1>>, <<620,1,0,1>>, <<623,1,0,0>>,
      <<625,1,0,1>>, <<626,1,0,0>>, <<629,1,0,0>>, <<637,1,0,1>>,
      <<640,1,0,0>>, <<642,1,0,1>>, <<643,1,0,0>>, <<647,1,0,1>>,
      <<648,1,0,0>>, <<649,1,0,0>>, <<650,2,0,0>>, <<652,1,0,0>>,
      <<658,1,0,0>>, <<669,1,0,1>>, <<670,1,0,1>>, <<837,1,7,3>>,
      <<880,4,4,0>>, <<886,2,4,0>>, <<891,3,0,0>>, <<895,1,3,0>>,
      <<902,1,3,0>>, <<904,3,3,0>>, <<908,1,3,0>>, <<910,2,3,0>>,
      <<912,1,13,0>>, <<913,17,3,0>>, <<931,9,3,0>>, <<940,1,0,0>>,
      <<941,3,0,0>>, <<944,1,13,3>>, <<945,17,0,0>>, <<962,1,7,3>>,
      <<963,9,0,0>>, <<972,1,0,0>>, <<973,2,0,0>>, <<975,1,3,0>>,
      <<976,1,7,3>>, <<977,1,7,3>>, <<981,1,7,3>>, <<982,1,7,3>>,
      <<983,1,0,0>>, <<984,24,4,0>>, <<1008,1,7,3>>, <<1009,1,7,3>>,
      <<1010,1,0,0>>, <<1011,1,0,0>>, <<1012,1,10,0>>, <<1013,1,7,3>>,
      <<1015,2,4,0>>, <<1017,1,3,0>>, <<1018,2,4,0>>, <<1021,3,3,0>>,
      <<1024,16,3,0>>, <<1040,32,3,0>>, <<1072,32,0,0>>, <<1104,16,0,0>>,
      <<1120,34,4,0>>, <<1162,54,4,0>>, <<1216,1,3,0>>, <<1217,14,4,0>>,
      <<1231,1,0,0>>, <<1232,96,4,0>>, <<1329,38,3,0>>, <<1377,38,0,0>>,
      <<1415,1,11,5>>, <<4256,38,3,1>>, <<4295,1,3,1>>, <<4301,1,3,1>>,
      <<4304,43,0,0>>, <<4349,3,0,0>>, <<5024,80,1,1>>, <<5104,6,1,0>>,
      <<5112,6,2,0>>, <<7296,1,7,4>>, <<7297,1,7,4>>, <<7298,1,7,4>>,
      <<7299,1,7,4>>, <<7300,1,7,4>>, <<7301,1,7,4>>, <<7302,1,7,4>>,
      <<7303,1,8,0>>, <<7304,1,8,0>>, <<7305,2,4,0>>, <<7312,43,3,0>>,
      <<7357,3,3,0>>, <<7545,1,0,1>>, <<7549,1,0,1>>, <<7566,1,0,1>>,
      <<7680,126,4,0>>, <<7806,24,4,0>>, <<7830,1,11,5>>, <<7831,1,11,6>>,
      <<7832,1,11,6>>, <<7833,1,11,6>>, <<7834,1,11,7>>, <<7835,1,8,0>>,
      <<7838,1,3,0>>, <<7840,96,4,0>>, <<7936,8,0,0>>, <<7944,8,3,0>>,
      <<7952,6,0,0>>, <<7960,6,3,0>>, <<7968,8,0,0>>, <<7976,8,3,0>>,
      <<7984,8,0,0>>, <<7992,8,3,0>>, <<8000,6,0,0>>, <<8008,6,3,0>>,
      <<8016,1,11,0>>, <<8017,1,0,0>>, <<8018,1,13,3>>, <<8019,1,0,0>>,
      <<8020,1,13,3>>, <<8021,1,0,0>>, <<8022,1,13,3>>, <<8023,1,0,0>>,
      <<8025,1,3,0>>, <<8027,1,3,0>>, <<8029,1,3,0>>, <<8031,1,3,0>>,
      <<8032,8,0,0>>, <<8040,8,3,0>>, <<8048,2,0,0>>, <<8050,4,0,0>>,
      <<8054,2,0,1>>, <<8056,2,0,1>>, <<8058,2,0,1>>, <<8060,2,0,1>>,
      <<8064,8,11,7>>, <<8072,8,6,7>>, <<8080,8,11,8>>, <<8088,8,6,8>>,
      <<8096,8,11,8>>, <<8104,8,6,8>>, <<8112,2,0,0>>, <<8114,1,11,9>>,
      <<8115,1,11,1>>, <<8116,1,11,9>>, <<8118,1,11,1>>, <<8119,1,13,7>>,
      <<8120,2,3,0>>, <<8122,2,3,0>>, <<8124,1,6,1>>, <<8126,1,7,3>>,
      <<8130,1,11,9>>, <<8131,1,11,2>>, <<8132,1,11,10>>, <<8134,1,11,2>>,
      <<8135,1,13,8>>, <<8136,4,3,0>>, <<8140,1,6,2>>, <<8144,2,0,1>>,
      <<8146,1,13,0>>, <<8147,1,13,0>>, <<8150,1,11,0>>, <<8151,1,13,0>>,
      <<8152,2,3,0>>, <<8154,2,3,0>>, <<8160,2,0,1>>, <<8162,1,13,3>>,
      <<8163,1,13,3>>, <<8164,1,11,10>>, <<8165,1,0,1>>, <<8166,1,11,0>>,
      <<8167,1,13,3>>, <<8168,2,3,1>>, <<8170,2,3,0>>, <<8172,1,3,1>>,
      <<8178,1,11,10>>, <<8179,1,11,2>>, <<8180,1,11,11>>, <<8182,1,11,2>>,
      <<8183,1,13,9>>, <<8184,2,3,0>>, <<8186,2,3,0>>, <<8188,1,6,2>>,
      <<8486,1,10,0>>, <<8490,1,10,0>>, <<8491,1,10,0>>, <<8498,1,3,1>>,
      <<8526,1,0,1>>, <<8544,16,3,1>>, <<8560,16,0,1>>, <<8579,2,4,0>>,
      <<9398,26,3,1>>, <<9424,26,0,1>>, <<11264,48,3,1>>, <<11312,48,0,1>>,
      <<11360,2,4,0>>, <<11362,1,3,0>>, <<11363,1,3,0>>, <<11364,1,3,0>>,
      <<11365,1,0,0>>, <<11366,1,0,0>>, <<11367,6,4,0>>, <<11373,1,3,0>>,
      <<11374,1,3,0>>, <<11375,1,3,0>>, <<11376,1,3,0>>, <<11378,2,4,0>>,
      <<11381,2,4,0>>, <<11390,2,3,0>>, <<11392,100,4,0>>, <<11499,4,4,0>>,
      <<11506,2,4,0>>, <<11520,38,0,0>>, <<11559,1,0,0>>, <<11565,1,0,0>>,
      <<42560,46,4,0>>, <<42624,28,4,0>>, <<42786,14,4,0>>,
      <<42802,62,4,0>>, <<42873,4,4,0>>, <<42877,1,3,0>>, <<42878,10,4,0>>,
      <<42891,2,4,0>>, <<42893,1,3,0>>, <<42896,4,4,0>>, <<42900,1,0,1>>,
      <<42902,20,4,0>>, <<42922,1,3,0>>, <<42923,1,3,0>>, <<42924,1,3,0>>,
      <<42925,1,3,0>>, <<42926,1,3,0>>, <<42928,1,3,0>>, <<42929,1,3,0>>,
      <<42930,1,3,0>>, <<42931,1,3,1>>, <<42932,16,4,0>>, <<42948,1,3,1>>,
      <<42949,1,3,0>>, <<42950,1,3,0>>, <<42951,4,4,0>>, <<42955,1,3,0>>,
      <<42956,16,4,0>>, <<42972,1,3,0>>, <<42997,2,4,0>>, <<43859,1,0,1>>,
      <<43888,80,2,0>>, <<64256,1,11,2>>, <<64257,1,11,2>>,
      <<64258,1,11,2>>, <<64259,1,13,10>>, <<64260,1,13,10>>,
      <<64261,1,11,3>>, <<64262,1,11,3>>, <<64275,1,11,11>>,
      <<64276,1,11,11>>, <<64277,1,11,11>>, <<64278,1,11,12>>,
      <<64279,1,11,11>>, <<65313,26,3,1>>, <<65345,26,0,1>>,
      <<66560,40,3,1>>, <<66600,40,0,1>>, <<66736,36,3,1>>,
      <<66776,36,0,1>>, <<66928,11,3,1>>, <<66940,15,3,1>>, <<66956,7,3,1>>,
      <<66964,2,3,1>>, <<66967,11,0,1>>, <<66979,15,0,1>>, <<66995,7,0,1>>,
      <<67003,2,0,1>>, <<68736,51,3,1>>, <<68800,51,0,1>>, <<68944,22,3,1>>,
      <<68976,22,0,1>>, <<71840,32,3,1>>, <<71872,32,0,1>>,
      <<93760,32,3,1>>, <<93792,32,0,1>>, <<93856,25,3,1>>,
      <<93883,25,0,1>>, <<125184,34,3,1>>, <<125218,34,0,1>>
    >>

\* The low eight bits of the data of each entry.
case_conv_table2 ==
    <<
      1, 0, 156, 6, 7, 77, 3, 4, 16, 0, 143, 11, 0, 0, 17, 0, 8, 0, 83,
      75, 82, 0, 83, 0, 84, 0, 59, 85, 86, 0, 88, 90, 64, 95, 94, 0, 71,
      80, 99, 101, 67, 102, 0, 104, 0, 106, 0, 108, 0, 110, 0, 112, 0, 0,
      65, 0, 0, 0, 0, 26, 0, 147, 0, 0, 32, 54, 0, 40, 0, 36, 0, 36, 37,
      45, 0, 19, 109, 111, 0, 41, 39, 42, 20, 22, 24, 27, 28, 65, 30, 66,
      31, 78, 60, 64, 34, 33, 68, 33, 67, 38, 40, 39, 41, 35, 43, 75, 45,
      70, 47, 76, 49, 77, 51, 71, 69, 153, 0, 0, 151, 145, 127, 128, 133,
      134, 18, 130, 132, 120, 121, 18, 125, 163, 126, 122, 123, 140, 146,
      152, 166, 160, 135, 0, 154, 161, 149, 119, 51, 149, 0, 144, 0, 118,
      155, 154, 153, 152, 0, 0, 160, 0, 158, 0, 163, 162, 21, 49, 50, 51,
      183, 184, 83, 172, 171, 18, 20, 30, 33, 34, 34, 42, 52, 53, 0, 168,
      169, 57, 34, 76, 0, 0, 151, 1, 90, 218, 29, 54, 5, 0, 199, 198, 201,
      200, 203, 202, 205, 204, 207, 206, 196, 216, 69, 217, 66, 218, 70,
      219, 209, 211, 213, 215, 221, 220, 241, 249, 1, 17, 10, 18, 128,
      159, 0, 33, 128, 163, 240, 0, 192, 64, 198, 96, 234, 222, 230, 153,
      192, 0, 0, 6, 96, 223, 41, 0, 21, 18, 6, 22, 251, 224, 9, 21, 18,
      132, 11, 198, 22, 2, 226, 6, 192, 64, 0, 70, 96, 225, 227, 109, 55,
      56, 57, 24, 23, 26, 25, 0, 29, 28, 31, 30, 0, 97, 186, 103, 69, 72,
      0, 80, 100, 79, 81, 0, 0, 73, 0, 0, 0, 165, 166, 167, 0, 0, 0, 0, 0,
      185, 0, 0, 92, 0, 74, 0, 93, 87, 89, 98, 96, 114, 107, 113, 82, 0,
      62, 105, 187, 0, 91, 0, 37, 0, 72, 170, 138, 139, 140, 171, 172, 88,
      88, 175, 148, 176, 111, 178, 97, 96, 99, 98, 101, 100, 106, 107,
      108, 109, 102, 103, 104, 105, 111, 110, 113, 112, 115, 114, 117,
      116, 119, 118, 121, 120
    >>

\* Characters the entries refer to.
case_conv_ext ==
    <<
      921, 776, 769, 933, 787, 768, 834, 913, 919, 937, 70, 73, 76, 83,
      105, 775, 700, 78, 74, 780, 1333, 1362, 72, 817, 84, 87, 778, 89,
      65, 702, 7944, 8064, 7976, 8080, 8040, 8096, 8122, 902, 8115, 8138,
      905, 8131, 929, 8186, 911, 8179, 1348, 1350, 1339, 1358, 1341, 952,
      1122, 42570, 7776, 969, 107, 229
    >>

\* White_Space.
unicode_prop_White_Space_table ==
    <<
      136, 132, 145, 128, 227, 128, 153, 128, 85, 222, 128, 73, 126, 138,
      156, 12, 128, 174, 128, 79, 159, 128
    >>

\* Its index: three bytes for each block of the table.
unicode_prop_White_Space_index ==
    <<
      1, 48, 0
    >>

\* Cased, beyond the characters that have a case conversion.
unicode_prop_Cased1_table ==
    <<
      64, 169, 128, 142, 128, 252, 128, 211, 128, 155, 129, 141, 2, 128,
      225, 128, 145, 133, 154, 1, 0, 1, 17, 3, 4, 8, 1, 8, 48, 8, 1, 21,
      32, 1, 49, 153, 49, 157, 132, 64, 148, 128, 214, 130, 166, 128, 65,
      98, 128, 166, 128, 75, 114, 128, 76, 2, 248, 2, 128, 143, 128, 176,
      64, 219, 8, 128, 65, 208, 128, 140, 128, 143, 140, 228, 3, 1, 137,
      0, 20, 40, 16, 17, 2, 1, 24, 11, 36, 75, 38, 1, 1, 134, 229, 128,
      96, 121, 182, 129, 64, 145, 129, 189, 136, 148, 5, 128, 152, 128,
      192, 26, 130, 67, 52, 162, 6, 128, 141, 96, 92, 21, 1, 16, 169, 128,
      136, 96, 204, 68, 212, 128, 198, 1, 8, 9, 11, 128, 139, 0, 6, 128,
      192, 3, 15, 6, 128, 155, 3, 4, 0, 22, 128, 65, 83, 129, 152, 128,
      152, 128, 158, 128, 152, 128, 158, 128, 152, 128, 158, 128, 152,
      128, 158, 128, 152, 7, 71, 51, 137, 128, 147, 45, 65, 4, 189, 80,
      193, 153, 133, 153, 133, 153
    >>

\* Its index.
unicode_prop_Cased1_index ==
    <<
      185, 2, 128, 160, 30, 64, 158, 166, 64, 85, 212, 33, 21, 215, 33,
      138, 241, 1
    >>

\* Case_Ignorable.
unicode_prop_Case_Ignorable_table ==
    <<
      166, 5, 128, 138, 128, 162, 0, 128, 198, 3, 0, 3, 1, 129, 65, 246,
      64, 191, 25, 24, 136, 8, 128, 64, 250, 134, 64, 206, 4, 128, 176,
      172, 0, 1, 1, 0, 171, 128, 138, 133, 137, 138, 0, 162, 128, 137,
      148, 143, 128, 228, 56, 137, 3, 160, 0, 128, 157, 154, 218, 138,
      185, 138, 24, 8, 151, 151, 170, 130, 171, 6, 12, 136, 168, 185, 182,
      0, 3, 59, 2, 134, 137, 129, 140, 128, 142, 128, 185, 3, 31, 128,
      147, 129, 153, 1, 129, 184, 3, 11, 9, 18, 128, 157, 10, 128, 138,
      129, 184, 3, 32, 11, 128, 147, 129, 149, 40, 128, 185, 1, 0, 31, 6,
      129, 138, 129, 157, 128, 188, 128, 139, 128, 177, 2, 128, 182, 0,
      20, 16, 30, 129, 138, 129, 156, 128, 185, 1, 5, 4, 129, 147, 129,
      155, 129, 184, 11, 31, 128, 147, 129, 156, 128, 199, 6, 16, 128,
      217, 1, 134, 138, 136, 225, 1, 136, 136, 0, 134, 200, 129, 154, 0,
      0, 128, 182, 141, 4, 1, 132, 138, 128, 163, 136, 128, 229, 24, 40,
      9, 129, 152, 11, 130, 143, 131, 140, 1, 13, 128, 142, 128, 221, 128,
      66, 95, 130, 67, 177, 130, 156, 129, 157, 129, 157, 129, 191, 8, 55,
      1, 138, 16, 32, 172, 132, 178, 128, 192, 129, 161, 128, 245, 19,
      129, 136, 5, 130, 64, 218, 9, 128, 185, 0, 48, 0, 1, 61, 137, 8,
      166, 7, 173, 129, 139, 147, 131, 175, 0, 32, 4, 128, 167, 136, 139,
      129, 159, 25, 8, 130, 183, 0, 10, 0, 130, 185, 57, 129, 191, 133,
      209, 16, 140, 6, 24, 40, 17, 177, 190, 140, 128, 161, 228, 65, 188,
      0, 130, 138, 130, 140, 130, 140, 130, 140, 129, 139, 39, 129, 137,
      1, 1, 132, 176, 32, 137, 0, 140, 128, 143, 140, 178, 160, 75, 138,
      129, 240, 130, 252, 128, 142, 128, 223, 159, 174, 128, 65, 212, 128,
      163, 26, 36, 128, 220, 133, 220, 130, 96, 111, 21, 128, 68, 225,
      133, 65, 13, 128, 225, 24, 137, 0, 155, 131, 207, 129, 141, 161,
      205, 128, 150, 130, 229, 26, 15, 2, 3, 128, 152, 12, 128, 64, 150,
      129, 153, 145, 140, 128, 165, 135, 152, 138, 173, 130, 175, 1, 25,
      129, 144, 128, 148, 129, 193, 41, 9, 129, 139, 7, 128, 162, 128,
      138, 128, 178, 0, 17, 12, 8, 128, 154, 128, 141, 12, 8, 128, 227,
      132, 136, 130, 248, 1, 3, 128, 96, 79, 47, 128, 64, 146, 144, 66,
      60, 143, 16, 139, 143, 161, 1, 128, 64, 168, 6, 5, 128, 138, 128,
      162, 0, 128, 174, 128, 172, 129, 194, 128, 148, 130, 66, 0, 128, 64,
      225, 128, 64, 148, 132, 68, 4, 40, 169, 128, 136, 66, 69, 16, 12,
      131, 167, 19, 128, 64, 164, 129, 66, 60, 131, 165, 128, 153, 32,
      128, 65, 58, 129, 151, 128, 179, 133, 197, 138, 176, 131, 250, 128,
      181, 142, 168, 1, 129, 137, 130, 176, 25, 9, 3, 128, 137, 128, 177,
      130, 163, 32, 135, 189, 128, 139, 129, 179, 136, 137, 25, 128, 222,
      17, 0, 13, 1, 128, 64, 156, 2, 135, 148, 129, 184, 10, 128, 164, 50,
      132, 197, 133, 140, 0, 0, 128, 141, 129, 212, 57, 16, 128, 150, 128,
      211, 40, 3, 8, 129, 64, 237, 29, 8, 129, 154, 129, 212, 57, 0, 129,
      233, 0, 1, 40, 128, 228, 0, 1, 24, 132, 65, 2, 136, 1, 64, 255, 8,
      3, 128, 64, 143, 25, 11, 128, 159, 137, 167, 41, 31, 128, 136, 41,
      130, 173, 140, 1, 64, 197, 0, 16, 128, 64, 200, 48, 40, 128, 209,
      149, 14, 1, 1, 249, 42, 0, 8, 48, 128, 199, 10, 0, 128, 192, 128,
      65, 24, 129, 138, 129, 179, 36, 0, 128, 150, 128, 84, 212, 144, 133,
      142, 96, 44, 199, 139, 18, 73, 191, 132, 186, 134, 136, 131, 65,
      251, 130, 167, 129, 65, 225, 128, 190, 144, 191, 8, 129, 140, 129,
      96, 63, 251, 24, 48, 129, 76, 157, 8, 131, 82, 91, 173, 129, 150,
      66, 31, 130, 136, 143, 14, 157, 131, 64, 147, 130, 71, 186, 182,
      131, 177, 56, 141, 128, 149, 32, 142, 69, 79, 48, 144, 14, 1, 4,
      132, 189, 160, 128, 64, 159, 141, 65, 111, 128, 188, 131, 65, 250,
      132, 64, 253, 129, 64, 242, 1, 6, 12, 128, 136, 128, 65, 207, 134,
      236, 135, 74, 174, 132, 108, 12, 0, 128, 157, 223, 255, 64, 239
    >>

\* Its index.
unicode_prop_Case_Ignorable_index ==
    <<
      190, 5, 0, 254, 7, 0, 82, 10, 160, 193, 11, 0, 130, 13, 0, 63, 16,
      128, 212, 23, 64, 222, 26, 32, 233, 28, 0, 114, 32, 0, 22, 160, 64,
      198, 168, 64, 194, 170, 160, 48, 254, 0, 177, 7, 65, 81, 15, 1, 208,
      17, 1, 95, 20, 1, 68, 25, 97, 168, 28, 1, 42, 97, 97, 255, 175, 1,
      25, 224, 97, 0, 231, 1, 240, 1, 14
    >>

\* ID_Start.
unicode_prop_ID_Start_table ==
    <<
      192, 153, 133, 153, 174, 128, 137, 3, 4, 150, 128, 158, 128, 65,
      201, 131, 139, 141, 38, 0, 128, 64, 128, 32, 9, 24, 5, 0, 16, 0,
      147, 128, 210, 128, 64, 138, 135, 64, 165, 128, 165, 8, 133, 168,
      198, 154, 27, 172, 170, 162, 8, 226, 0, 142, 14, 129, 137, 17, 128,
      143, 0, 157, 156, 216, 138, 128, 151, 160, 136, 11, 4, 149, 24, 136,
      2, 128, 150, 152, 134, 138, 132, 151, 6, 143, 169, 185, 181, 16,
      145, 6, 137, 142, 143, 31, 9, 129, 149, 6, 0, 19, 16, 143, 128, 140,
      8, 130, 141, 129, 137, 7, 43, 9, 149, 6, 1, 1, 1, 158, 24, 128, 146,
      130, 143, 136, 2, 128, 149, 6, 1, 4, 16, 145, 128, 142, 129, 150,
      128, 138, 57, 9, 149, 6, 1, 4, 16, 157, 8, 130, 142, 128, 144, 0,
      42, 16, 26, 8, 0, 10, 10, 18, 139, 149, 128, 179, 56, 16, 150, 128,
      143, 16, 153, 16, 9, 129, 157, 3, 56, 16, 150, 128, 137, 4, 16, 157,
      16, 129, 142, 129, 144, 136, 2, 128, 168, 8, 143, 4, 23, 130, 151,
      44, 145, 130, 151, 128, 136, 0, 14, 185, 175, 1, 139, 134, 185, 8,
      0, 32, 151, 0, 128, 137, 1, 136, 1, 32, 128, 148, 131, 159, 128,
      190, 56, 163, 154, 132, 242, 170, 147, 128, 143, 43, 26, 2, 14, 19,
      140, 139, 128, 144, 165, 0, 32, 129, 170, 128, 65, 76, 3, 14, 0, 3,
      129, 168, 3, 129, 160, 3, 14, 0, 3, 129, 142, 128, 184, 3, 129, 194,
      164, 143, 143, 213, 13, 130, 66, 107, 129, 144, 128, 153, 132, 202,
      130, 138, 134, 145, 140, 146, 141, 145, 141, 140, 2, 142, 179, 162,
      3, 128, 194, 216, 134, 168, 0, 132, 197, 137, 158, 176, 157, 12,
      138, 171, 131, 153, 181, 150, 136, 180, 209, 128, 220, 174, 144,
      135, 181, 157, 140, 129, 137, 171, 153, 163, 168, 130, 137, 163,
      129, 138, 132, 170, 10, 168, 24, 40, 10, 4, 64, 191, 191, 65, 21,
      13, 129, 165, 13, 15, 0, 0, 0, 128, 158, 129, 180, 6, 0, 18, 6, 19,
      13, 131, 140, 34, 6, 243, 128, 140, 128, 143, 140, 228, 3, 1, 137,
      0, 13, 40, 0, 0, 128, 143, 11, 36, 24, 144, 168, 74, 118, 64, 228,
      43, 17, 139, 165, 0, 32, 129, 183, 48, 143, 150, 136, 48, 48, 48,
      48, 48, 48, 48, 134, 66, 37, 130, 152, 136, 52, 12, 131, 213, 28,
      128, 217, 3, 132, 170, 128, 221, 144, 159, 175, 143, 65, 255, 89,
      191, 191, 96, 86, 140, 194, 173, 129, 65, 12, 130, 143, 137, 129,
      147, 174, 143, 158, 129, 207, 166, 136, 129, 230, 129, 209, 147,
      144, 2, 3, 128, 150, 156, 179, 141, 177, 189, 42, 0, 129, 138, 155,
      137, 150, 152, 156, 134, 174, 155, 128, 143, 32, 137, 137, 32, 168,
      150, 16, 135, 147, 150, 16, 130, 177, 0, 17, 12, 8, 0, 151, 17, 138,
      50, 139, 41, 41, 133, 136, 48, 48, 170, 128, 141, 133, 242, 156, 96,
      43, 163, 139, 150, 131, 176, 96, 33, 3, 65, 109, 129, 233, 165, 134,
      139, 36, 0, 137, 128, 140, 4, 0, 1, 1, 128, 235, 160, 65, 106, 145,
      191, 129, 181, 167, 139, 243, 32, 64, 134, 163, 153, 133, 153, 138,
      216, 21, 13, 13, 10, 162, 139, 128, 153, 128, 146, 1, 128, 142, 129,
      141, 161, 250, 196, 180, 65, 10, 156, 130, 176, 174, 159, 140, 157,
      132, 165, 137, 157, 129, 163, 31, 4, 169, 64, 157, 145, 163, 131,
      163, 131, 167, 135, 179, 139, 138, 128, 142, 6, 1, 128, 138, 128,
      142, 6, 1, 130, 179, 139, 65, 54, 136, 149, 137, 135, 151, 40, 169,
      128, 136, 196, 41, 0, 171, 1, 16, 129, 150, 137, 150, 136, 158, 192,
      146, 1, 137, 149, 137, 153, 133, 153, 165, 183, 41, 191, 128, 142,
      24, 16, 156, 169, 156, 130, 156, 162, 56, 155, 154, 181, 137, 149,
      137, 146, 140, 145, 237, 200, 182, 178, 140, 178, 140, 163, 165,
      155, 136, 150, 64, 249, 169, 41, 143, 133, 183, 156, 137, 7, 149,
      169, 145, 173, 148, 154, 150, 139, 180, 184, 9, 128, 140, 172, 159,
      152, 153, 163, 156, 1, 7, 162, 16, 139, 175, 141, 131, 148, 0, 128,
      162, 145, 128, 152, 146, 129, 190, 48, 0, 24, 142, 128, 137, 134,
      174, 165, 57, 9, 149, 6, 1, 4, 16, 145, 128, 139, 132, 157, 137, 0,
      8, 128, 165, 0, 152, 0, 128, 171, 180, 145, 131, 147, 130, 157, 175,
      147, 8, 128, 64, 183, 174, 168, 131, 163, 175, 147, 128, 186, 170,
      140, 128, 198, 154, 164, 134, 64, 184, 171, 243, 191, 158, 57, 1,
      56, 8, 151, 142, 0, 128, 221, 57, 166, 143, 0, 128, 155, 128, 137,
      167, 48, 148, 128, 138, 173, 146, 128, 145, 200, 64, 198, 160, 158,
      136, 128, 164, 144, 128, 176, 157, 239, 48, 8, 165, 148, 128, 152,
      40, 8, 159, 141, 128, 150, 171, 65, 3, 146, 142, 0, 140, 128, 161,
      251, 128, 206, 67, 153, 229, 238, 144, 64, 195, 74, 75, 224, 142,
      68, 47, 144, 133, 152, 79, 154, 132, 66, 70, 90, 184, 157, 70, 225,
      66, 56, 134, 158, 144, 206, 144, 157, 145, 175, 143, 131, 158, 148,
      132, 146, 65, 175, 172, 64, 210, 191, 159, 152, 129, 152, 171, 202,
      32, 193, 140, 191, 8, 128, 141, 132, 136, 92, 213, 168, 159, 224,
      242, 96, 33, 252, 24, 48, 8, 65, 34, 142, 128, 156, 17, 128, 141,
      31, 65, 139, 73, 3, 234, 132, 140, 130, 136, 134, 137, 87, 101, 212,
      128, 198, 1, 8, 9, 11, 128, 139, 0, 6, 128, 192, 3, 15, 6, 128, 155,
      3, 4, 0, 22, 128, 65, 83, 129, 152, 128, 152, 128, 158, 128, 152,
      128, 158, 128, 152, 128, 158, 128, 152, 128, 158, 128, 152, 7, 71,
      51, 158, 45, 65, 4, 189, 64, 145, 172, 137, 134, 143, 128, 65, 64,
      157, 145, 171, 65, 227, 155, 64, 227, 157, 8, 64, 206, 158, 2, 1, 6,
      12, 136, 129, 64, 223, 48, 24, 8, 142, 128, 64, 196, 186, 195, 48,
      68, 179, 24, 154, 1, 0, 8, 128, 137, 3, 0, 0, 40, 24, 0, 0, 2, 1, 0,
      8, 0, 0, 0, 0, 1, 0, 11, 6, 3, 3, 0, 128, 137, 128, 144, 34, 4, 128,
      144, 81, 67, 96, 166, 223, 159, 81, 29, 129, 86, 141, 129, 93, 48,
      142, 66, 109, 73, 161, 66, 29, 69, 225, 83, 74, 132, 96, 33, 41
    >>

\* Its index.
unicode_prop_ID_Start_index ==
    <<
      246, 3, 32, 166, 7, 0, 169, 9, 32, 177, 10, 0, 186, 11, 32, 59, 13,
      32, 199, 14, 32, 73, 18, 0, 155, 22, 0, 172, 25, 0, 192, 29, 128,
      128, 32, 32, 112, 45, 0, 0, 50, 0, 6, 168, 0, 119, 170, 0, 252, 215,
      0, 253, 254, 64, 209, 2, 1, 178, 5, 33, 246, 8, 1, 73, 12, 1, 118,
      16, 1, 223, 18, 33, 200, 20, 65, 66, 25, 33, 49, 29, 97, 241, 47,
      65, 120, 107, 1, 35, 177, 161, 173, 212, 1, 111, 215, 1, 238, 229,
      1, 56, 238, 1, 224, 166, 66, 122, 52, 3
    >>

\* ID_Continue, beyond ID_Start.
unicode_prop_ID_Continue1_table ==
    <<
      175, 137, 164, 128, 214, 128, 66, 71, 239, 150, 128, 64, 250, 132,
      65, 8, 172, 0, 1, 1, 0, 199, 138, 175, 158, 40, 228, 49, 41, 8, 25,
      137, 150, 128, 157, 154, 218, 138, 142, 137, 160, 136, 136, 128,
      151, 24, 136, 2, 4, 170, 130, 186, 136, 169, 151, 128, 160, 181, 16,
      145, 6, 137, 9, 137, 144, 130, 183, 0, 49, 9, 130, 136, 128, 137, 9,
      137, 141, 1, 130, 183, 0, 35, 9, 18, 128, 147, 139, 16, 138, 130,
      183, 0, 56, 16, 130, 147, 9, 137, 137, 40, 130, 183, 0, 49, 9, 22,
      130, 137, 9, 137, 145, 128, 186, 34, 16, 131, 136, 128, 141, 137,
      143, 132, 182, 0, 48, 16, 30, 129, 138, 9, 137, 144, 130, 183, 0,
      48, 16, 30, 129, 138, 9, 137, 16, 139, 131, 182, 8, 48, 16, 131,
      136, 128, 137, 9, 137, 144, 130, 197, 3, 40, 0, 61, 137, 9, 188, 1,
      134, 139, 56, 137, 214, 1, 136, 138, 48, 137, 189, 13, 137, 138, 0,
      0, 3, 129, 176, 147, 1, 132, 138, 128, 163, 136, 128, 227, 147, 128,
      137, 139, 27, 16, 17, 50, 131, 140, 139, 128, 142, 66, 190, 130,
      136, 136, 67, 159, 131, 155, 130, 156, 129, 157, 129, 191, 159, 136,
      1, 137, 160, 16, 138, 64, 142, 128, 245, 139, 131, 139, 137, 137,
      255, 138, 187, 132, 184, 137, 128, 156, 129, 138, 133, 137, 149,
      141, 128, 158, 129, 139, 147, 132, 174, 144, 138, 137, 144, 136,
      139, 130, 157, 140, 129, 137, 171, 141, 175, 147, 135, 137, 133,
      137, 245, 16, 148, 24, 40, 10, 64, 197, 191, 66, 11, 129, 176, 129,
      146, 128, 250, 140, 24, 130, 139, 75, 253, 130, 64, 140, 128, 223,
      159, 66, 41, 133, 232, 129, 223, 128, 96, 117, 35, 137, 196, 3, 137,
      159, 129, 207, 129, 65, 15, 2, 3, 128, 150, 35, 128, 210, 129, 177,
      145, 137, 137, 133, 145, 140, 138, 155, 135, 152, 140, 171, 131,
      174, 141, 142, 137, 138, 128, 137, 137, 174, 141, 139, 7, 9, 137,
      160, 130, 177, 0, 17, 12, 8, 128, 168, 36, 129, 64, 235, 56, 9, 137,
      96, 79, 35, 128, 66, 224, 143, 143, 143, 17, 151, 130, 64, 191, 137,
      164, 128, 164, 128, 66, 150, 128, 64, 225, 128, 64, 148, 132, 65,
      36, 137, 69, 86, 16, 12, 131, 167, 19, 128, 64, 164, 129, 66, 60,
      31, 137, 133, 137, 158, 132, 65, 60, 129, 204, 133, 197, 138, 176,
      131, 249, 130, 180, 142, 158, 138, 9, 137, 131, 172, 138, 48, 172,
      137, 42, 163, 141, 128, 137, 33, 171, 128, 139, 130, 175, 141, 59,
      128, 139, 209, 139, 40, 8, 64, 156, 139, 132, 137, 43, 182, 8, 49,
      9, 130, 136, 128, 137, 9, 50, 132, 194, 136, 0, 8, 3, 4, 0, 141,
      129, 209, 145, 136, 137, 24, 208, 147, 139, 137, 64, 212, 49, 136,
      154, 129, 209, 144, 142, 137, 208, 140, 135, 137, 133, 147, 184,
      142, 131, 137, 64, 241, 142, 64, 164, 137, 197, 40, 9, 24, 0, 129,
      139, 137, 246, 49, 50, 128, 155, 137, 167, 48, 31, 128, 136, 138,
      173, 143, 64, 197, 135, 64, 135, 137, 180, 56, 135, 143, 137, 183,
      149, 128, 141, 249, 42, 0, 8, 48, 7, 137, 175, 32, 8, 39, 137, 181,
      137, 65, 8, 131, 136, 8, 128, 175, 50, 132, 140, 138, 84, 228, 5,
      142, 96, 44, 199, 155, 73, 37, 137, 213, 137, 165, 132, 186, 134,
      152, 137, 66, 21, 137, 65, 212, 0, 182, 51, 208, 128, 138, 129, 96,
      76, 170, 129, 80, 80, 137, 66, 5, 173, 129, 150, 66, 29, 34, 47, 57,
      134, 157, 131, 64, 147, 130, 69, 136, 177, 65, 255, 182, 131, 177,
      56, 141, 128, 149, 32, 142, 69, 79, 48, 144, 14, 1, 4, 227, 128, 64,
      159, 134, 136, 137, 65, 99, 128, 188, 141, 65, 241, 141, 64, 243, 8,
      137, 64, 231, 1, 6, 12, 128, 65, 217, 134, 236, 52, 137, 82, 149,
      137, 108, 5, 5, 64, 239
    >>

\* Its index.
unicode_prop_ID_Continue1_index ==
    <<
      250, 6, 0, 112, 9, 0, 240, 10, 64, 87, 12, 0, 240, 13, 96, 199, 15,
      32, 234, 23, 64, 236, 26, 0, 14, 32, 64, 126, 166, 32, 218, 169, 32,
      16, 254, 64, 64, 10, 65, 187, 16, 33, 78, 19, 65, 222, 21, 1, 229,
      25, 1, 90, 29, 1, 245, 106, 33, 140, 209, 97, 55, 225, 65, 240, 1,
      14
    >>

\* Canonical combining classes.
unicode_cc_table ==
    <<
      178, 207, 212, 0, 232, 3, 220, 0, 232, 0, 216, 4, 220, 1, 202, 3,
      220, 1, 202, 10, 220, 4, 1, 3, 220, 199, 0, 240, 192, 2, 220, 194,
      1, 220, 128, 194, 3, 220, 192, 0, 232, 1, 220, 192, 65, 233, 0, 234,
      65, 233, 0, 234, 0, 233, 204, 176, 226, 196, 176, 216, 0, 220, 195,
      0, 220, 194, 0, 222, 0, 220, 197, 5, 220, 193, 0, 220, 193, 0, 222,
      0, 228, 192, 73, 10, 67, 19, 128, 0, 23, 128, 65, 24, 128, 192, 0,
      220, 128, 0, 18, 176, 23, 199, 66, 30, 175, 71, 27, 193, 1, 220,
      196, 0, 220, 193, 0, 220, 143, 0, 35, 176, 52, 198, 129, 195, 0,
      220, 192, 129, 193, 128, 0, 220, 193, 0, 220, 162, 0, 36, 157, 192,
      0, 220, 193, 0, 220, 193, 2, 220, 192, 1, 220, 192, 0, 220, 194, 0,
      220, 192, 0, 220, 192, 0, 220, 192, 0, 220, 193, 176, 111, 198, 0,
      220, 192, 136, 0, 220, 151, 195, 128, 200, 128, 194, 128, 196, 170,
      2, 220, 176, 10, 193, 2, 220, 195, 169, 196, 4, 220, 205, 128, 0,
      220, 193, 0, 220, 193, 0, 220, 194, 2, 220, 66, 27, 194, 0, 220,
      193, 1, 220, 196, 176, 11, 0, 7, 143, 0, 9, 130, 192, 0, 220, 193,
      176, 54, 0, 7, 143, 0, 9, 175, 192, 176, 12, 0, 7, 143, 0, 9, 176,
      61, 0, 7, 143, 0, 9, 176, 61, 0, 7, 143, 0, 9, 176, 78, 0, 9, 176,
      61, 0, 7, 143, 0, 9, 134, 0, 84, 0, 91, 176, 52, 0, 7, 143, 0, 9,
      176, 60, 1, 9, 143, 0, 9, 176, 75, 0, 9, 176, 60, 1, 103, 0, 9, 140,
      3, 107, 176, 59, 1, 118, 0, 9, 140, 3, 122, 176, 27, 1, 220, 154, 0,
      220, 128, 0, 220, 128, 0, 216, 176, 6, 65, 129, 128, 0, 132, 132, 3,
      130, 129, 0, 130, 128, 193, 0, 9, 128, 193, 176, 13, 0, 220, 176,
      63, 0, 7, 128, 1, 9, 176, 33, 0, 220, 178, 158, 194, 179, 131, 1, 9,
      157, 0, 9, 176, 108, 0, 9, 137, 192, 176, 154, 0, 228, 176, 94, 0,
      222, 192, 0, 220, 176, 170, 192, 0, 220, 176, 22, 0, 9, 147, 199,
      129, 0, 220, 175, 196, 5, 220, 193, 0, 220, 128, 1, 220, 193, 1,
      220, 196, 0, 220, 209, 0, 220, 129, 197, 0, 220, 195, 0, 234, 176,
      23, 0, 7, 142, 0, 9, 165, 192, 0, 220, 198, 176, 5, 1, 9, 176, 9, 0,
      7, 138, 1, 9, 176, 18, 0, 7, 176, 103, 194, 65, 0, 4, 220, 193, 3,
      220, 192, 65, 0, 5, 1, 131, 0, 220, 133, 192, 130, 193, 176, 149,
      193, 0, 220, 198, 0, 220, 193, 0, 234, 0, 214, 0, 220, 0, 202, 228,
      0, 232, 1, 228, 0, 220, 0, 218, 192, 0, 233, 0, 220, 192, 0, 220,
      178, 159, 193, 1, 1, 195, 2, 1, 193, 131, 192, 130, 1, 1, 192, 0,
      220, 192, 1, 1, 3, 220, 192, 184, 3, 205, 194, 176, 92, 0, 9, 176,
      47, 223, 177, 249, 0, 218, 0, 228, 0, 232, 0, 222, 1, 224, 176, 56,
      1, 8, 184, 109, 163, 192, 131, 201, 159, 193, 176, 31, 193, 176,
      227, 0, 9, 164, 0, 9, 176, 102, 0, 9, 154, 209, 176, 8, 2, 220, 164,
      0, 9, 176, 46, 0, 7, 139, 0, 9, 176, 190, 192, 128, 193, 0, 220,
      129, 193, 132, 193, 128, 192, 176, 3, 0, 9, 176, 197, 0, 9, 184, 70,
      255, 0, 26, 178, 208, 198, 6, 220, 193, 179, 156, 0, 220, 176, 177,
      0, 220, 176, 100, 196, 182, 97, 0, 220, 128, 192, 167, 192, 0, 1, 0,
      220, 131, 0, 9, 176, 116, 192, 0, 220, 178, 12, 195, 176, 16, 196,
      177, 12, 193, 176, 28, 1, 220, 128, 2, 220, 176, 21, 1, 220, 194, 0,
      220, 192, 3, 220, 176, 0, 192, 0, 220, 192, 0, 220, 176, 143, 0, 9,
      168, 0, 9, 141, 0, 9, 176, 8, 0, 9, 0, 7, 176, 20, 194, 175, 1, 9,
      176, 13, 0, 7, 176, 27, 0, 9, 136, 0, 7, 176, 57, 0, 9, 0, 7, 176,
      129, 0, 7, 0, 9, 176, 31, 1, 7, 143, 0, 9, 151, 198, 130, 196, 176,
      40, 2, 9, 176, 64, 0, 9, 130, 0, 7, 150, 192, 176, 50, 0, 9, 0, 7,
      176, 202, 0, 9, 0, 7, 176, 77, 0, 9, 176, 69, 0, 9, 0, 7, 176, 66,
      0, 9, 176, 220, 0, 9, 0, 7, 176, 209, 1, 9, 131, 0, 7, 176, 107, 0,
      9, 176, 34, 0, 9, 145, 0, 9, 176, 32, 0, 9, 177, 116, 0, 9, 176,
      209, 0, 7, 128, 1, 9, 176, 32, 0, 9, 177, 120, 1, 9, 184, 57, 187,
      0, 9, 184, 1, 143, 4, 1, 176, 10, 198, 180, 136, 1, 6, 184, 68, 123,
      0, 1, 184, 12, 149, 1, 216, 2, 1, 130, 0, 226, 4, 216, 135, 7, 220,
      129, 196, 1, 220, 157, 195, 176, 99, 194, 184, 5, 138, 198, 128,
      208, 129, 198, 128, 193, 128, 196, 176, 51, 192, 176, 111, 198, 177,
      70, 192, 176, 12, 195, 177, 203, 1, 232, 0, 220, 192, 176, 205, 192,
      0, 220, 176, 194, 192, 129, 192, 134, 193, 132, 192, 177, 169, 6,
      220, 176, 60, 197, 0, 7
    >>

\* Their index.
unicode_cc_index ==
    <<
      77, 3, 0, 151, 5, 32, 198, 5, 0, 231, 6, 0, 69, 7, 0, 156, 8, 0, 77,
      9, 0, 60, 11, 0, 61, 13, 0, 54, 15, 0, 56, 16, 32, 58, 25, 0, 203,
      26, 32, 242, 27, 0, 195, 29, 32, 208, 32, 0, 0, 46, 0, 44, 168, 0,
      190, 170, 0, 118, 3, 1, 250, 14, 1, 128, 16, 33, 233, 18, 1, 195,
      20, 1, 63, 25, 1, 152, 29, 33, 103, 209, 1, 143, 224, 33, 246, 230,
      1, 75, 233, 1
    >>
---------------------------------------------------------------------------
(* Decomposition and composition, in full.                                *)

\* unicode_decomp_table1: first character, number of characters, DecompTypeEnum
\* and is_compat.
unicode_decomp_table1 ==
    <<
      <<160,1,0,1>>, <<168,1,11,1>>, <<170,1,0,1>>, <<175,1,11,1>>,
      <<178,2,10,1>>, <<180,1,11,1>>, <<181,1,0,1>>, <<184,1,11,1>>,
      <<185,2,10,1>>, <<188,3,12,1>>, <<192,64,11,0>>, <<256,16,33,0>>,
      <<274,20,33,0>>, <<296,8,33,0>>, <<304,1,11,0>>, <<306,2,11,1>>,
      <<308,4,33,0>>, <<313,6,33,0>>, <<319,2,23,1>>, <<323,6,33,0>>,
      <<329,1,31,1>>, <<332,6,33,0>>, <<340,18,33,0>>, <<360,16,33,0>>,
      <<376,1,11,0>>, <<377,6,33,0>>, <<383,1,0,1>>, <<416,2,33,0>>,
      <<431,2,33,0>>, <<452,3,2,1>>, <<455,6,11,1>>, <<461,16,34,0>>,
      <<478,6,34,0>>, <<486,6,33,0>>, <<492,5,31,0>>, <<497,3,11,1>>,
      <<500,2,33,0>>, <<504,8,34,0>>, <<512,28,33,0>>, <<542,2,33,0>>,
      <<550,14,34,0>>, <<688,9,1,1>>, <<728,6,11,1>>, <<736,5,1,1>>,
      <<832,4,10,0>>, <<836,1,11,0>>, <<884,1,0,0>>, <<890,1,11,1>>,
      <<894,1,0,0>>, <<900,1,11,1>>, <<901,2,31,0>>, <<903,1,0,0>>,
      <<904,9,31,0>>, <<938,7,23,0>>, <<970,5,23,0>>, <<976,3,22,1>>,
      <<979,2,23,0>>, <<981,2,1,1>>, <<1008,6,1,1>>, <<1017,1,0,1>>,
      <<1024,4,31,0>>, <<1031,1,31,0>>, <<1036,3,31,0>>, <<1049,1,31,0>>,
      <<1081,1,31,0>>, <<1104,4,31,0>>, <<1111,1,31,0>>, <<1116,3,31,0>>,
      <<1142,2,34,0>>, <<1217,2,34,0>>, <<1232,4,34,0>>, <<1238,2,34,0>>,
      <<1242,6,34,0>>, <<1250,6,34,0>>, <<1258,12,34,0>>, <<1272,2,34,0>>,
      <<1415,1,2,1>>, <<1570,5,23,0>>, <<1653,4,23,1>>, <<1728,3,2,0>>,
      <<1747,1,2,0>>, <<2345,1,2,0>>, <<2353,1,2,0>>, <<2356,1,2,0>>,
      <<2392,8,23,0>>, <<2507,2,23,0>>, <<2524,2,16,0>>, <<2527,1,2,0>>,
      <<2611,1,2,0>>, <<2614,1,2,0>>, <<2649,3,23,0>>, <<2654,1,2,0>>,
      <<2888,1,2,0>>, <<2891,2,23,0>>, <<2908,2,16,0>>, <<2964,1,2,0>>,
      <<3018,3,23,0>>, <<3144,1,2,0>>, <<3264,1,2,0>>, <<3271,2,17,0>>,
      <<3274,2,23,0>>, <<3402,3,23,0>>, <<3546,1,2,0>>, <<3548,3,23,0>>,
      <<3635,1,2,1>>, <<3763,1,2,1>>, <<3804,2,23,1>>, <<3852,1,0,1>>,
      <<3907,1,2,0>>, <<3917,1,2,0>>, <<3922,1,2,0>>, <<3927,1,2,0>>,
      <<3932,1,2,0>>, <<3945,1,2,0>>, <<3955,1,2,0>>, <<3957,2,23,0>>,
      <<3959,1,2,1>>, <<3960,1,2,0>>, <<3961,1,2,1>>, <<3969,1,2,0>>,
      <<3987,1,2,0>>, <<3997,1,2,0>>, <<4002,1,2,0>>, <<4007,1,2,0>>,
      <<4012,1,2,0>>, <<4025,1,2,0>>, <<4134,1,2,0>>, <<4348,1,0,1>>,
      <<6918,9,2,0>>, <<6930,1,2,0>>, <<6971,3,2,0>>, <<6976,2,16,0>>,
      <<6979,1,2,0>>, <<7468,7,1,1>>, <<7475,8,15,1>>, <<7484,47,1,1>>,
      <<7544,1,0,1>>, <<7579,37,1,1>>, <<7680,58,34,0>>, <<7738,18,33,0>>,
      <<7756,48,34,0>>, <<7804,26,33,0>>, <<7830,4,11,0>>, <<7834,1,2,1>>,
      <<7835,1,31,0>>, <<7840,26,34,0>>, <<7866,64,34,0>>, <<7936,2,17,0>>,
      <<7938,6,34,0>>, <<7944,2,17,0>>, <<7946,6,34,0>>, <<7952,2,17,0>>,
      <<7954,4,34,0>>, <<7960,2,17,0>>, <<7962,4,34,0>>, <<7968,34,31,0>>,
      <<8002,4,34,0>>, <<8008,2,17,0>>, <<8010,4,34,0>>, <<8016,2,17,0>>,
      <<8018,6,34,0>>, <<8025,24,31,0>>, <<8049,1,0,0>>, <<8050,1,31,0>>,
      <<8051,1,0,0>>, <<8052,1,31,0>>, <<8053,1,0,0>>, <<8054,1,31,0>>,
      <<8055,1,0,0>>, <<8056,1,31,0>>, <<8057,1,0,0>>, <<8058,1,31,0>>,
      <<8059,1,0,0>>, <<8060,1,31,0>>, <<8061,1,0,0>>, <<8064,16,16,0>>,
      <<8080,16,16,0>>, <<8096,16,16,0>>, <<8112,11,31,0>>, <<8123,1,0,0>>,
      <<8124,1,31,0>>, <<8125,1,11,1>>, <<8126,1,0,0>>, <<8127,2,11,1>>,
      <<8129,8,31,0>>, <<8137,1,0,0>>, <<8138,1,31,0>>, <<8139,1,0,0>>,
      <<8140,7,31,0>>, <<8147,1,0,0>>, <<8150,5,23,0>>, <<8155,1,0,0>>,
      <<8157,6,31,0>>, <<8163,1,0,0>>, <<8164,7,23,0>>, <<8171,1,0,0>>,
      <<8172,2,31,0>>, <<8174,2,1,0>>, <<8178,7,31,0>>, <<8185,1,0,0>>,
      <<8186,1,31,0>>, <<8187,1,0,0>>, <<8188,1,31,0>>, <<8189,1,0,0>>,
      <<8190,1,11,1>>, <<8192,2,15,0>>, <<8194,9,10,1>>, <<8209,1,0,1>>,
      <<8215,1,11,1>>, <<8228,1,0,1>>, <<8229,1,11,1>>, <<8230,1,12,1>>,
      <<8239,1,0,1>>, <<8243,1,2,1>>, <<8244,1,24,1>>, <<8246,1,2,1>>,
      <<8247,1,24,1>>, <<8252,3,11,1>>, <<8263,3,11,1>>, <<8279,1,25,1>>,
      <<8287,1,0,1>>, <<8304,11,10,1>>, <<8315,1,0,1>>, <<8316,4,10,1>>,
      <<8320,10,15,1>>, <<8330,11,1,1>>, <<8341,8,10,1>>, <<8360,1,11,1>>,
      <<8448,2,12,1>>, <<8450,1,0,1>>, <<8451,1,31,1>>, <<8453,2,12,1>>,
      <<8455,1,0,1>>, <<8457,1,31,1>>, <<8458,10,22,1>>, <<8469,1,0,1>>,
      <<8470,1,11,1>>, <<8473,5,10,1>>, <<8480,1,11,1>>, <<8481,1,12,1>>,
      <<8482,1,11,1>>, <<8484,1,0,1>>, <<8486,1,0,0>>, <<8488,1,0,1>>,
      <<8490,2,1,0>>, <<8492,9,10,1>>, <<8501,4,15,1>>, <<8505,1,0,1>>,
      <<8507,1,12,1>>, <<8508,5,1,1>>, <<8517,5,10,1>>, <<8528,2,12,1>>,
      <<8530,1,13,1>>, <<8531,12,12,1>>, <<8543,1,11,1>>, <<8544,1,0,1>>,
      <<8545,1,11,1>>, <<8546,1,12,1>>, <<8547,1,11,1>>, <<8548,1,0,1>>,
      <<8549,1,11,1>>, <<8550,1,12,1>>, <<8551,1,13,1>>, <<8552,1,11,1>>,
      <<8553,1,0,1>>, <<8554,1,11,1>>, <<8555,1,12,1>>, <<8556,5,10,1>>,
      <<8561,1,11,1>>, <<8562,1,12,1>>, <<8563,1,11,1>>, <<8564,1,0,1>>,
      <<8565,1,11,1>>, <<8566,1,12,1>>, <<8567,1,13,1>>, <<8568,1,11,1>>,
      <<8569,1,0,1>>, <<8570,1,11,1>>, <<8571,1,12,1>>, <<8572,4,10,1>>,
      <<8585,1,12,1>>, <<8602,2,31,0>>, <<8622,1,31,0>>, <<8653,3,31,0>>,
      <<8708,1,31,0>>, <<8713,1,31,0>>, <<8716,1,31,0>>, <<8740,3,31,0>>,
      <<8748,1,2,1>>, <<8749,1,24,1>>, <<8751,1,2,1>>, <<8752,1,24,1>>,
      <<8769,1,31,0>>, <<8772,1,31,0>>, <<8775,3,31,0>>, <<8800,3,31,0>>,
      <<8813,5,31,0>>, <<8820,2,34,0>>, <<8824,2,34,0>>, <<8832,2,34,0>>,
      <<8836,2,34,0>>, <<8840,2,34,0>>, <<8876,4,31,0>>, <<8928,4,34,0>>,
      <<8938,4,16,0>>, <<9001,2,15,0>>, <<9312,9,15,1>>, <<9321,10,17,1>>,
      <<9331,1,11,1>>, <<9332,9,18,1>>, <<9341,10,21,1>>, <<9351,1,13,1>>,
      <<9352,9,16,1>>, <<9361,10,18,1>>, <<9371,1,12,1>>, <<9372,26,18,1>>,
      <<9398,26,15,1>>, <<9424,26,15,1>>, <<9450,1,0,1>>, <<10764,1,25,1>>,
      <<10868,1,12,1>>, <<10869,1,11,1>>, <<10870,1,12,1>>,
      <<10972,1,31,0>>, <<11388,2,10,1>>, <<11631,1,0,1>>, <<11935,1,0,1>>,
      <<12019,1,0,1>>, <<12032,9,22,1>>, <<12041,9,22,1>>,
      <<12050,9,22,1>>, <<12059,103,1,1>>, <<12162,10,22,1>>,
      <<12172,58,1,1>>, <<12230,16,22,1>>, <<12288,1,0,1>>,
      <<12342,5,1,1>>, <<12364,23,2,0>>, <<12389,5,2,0>>, <<12400,2,17,0>>,
      <<12403,2,17,0>>, <<12406,2,17,0>>, <<12409,2,17,0>>,
      <<12412,2,17,0>>, <<12436,1,2,0>>, <<12443,2,17,1>>, <<12446,1,2,0>>,
      <<12447,1,2,1>>, <<12460,23,2,0>>, <<12485,5,2,0>>, <<12496,2,17,0>>,
      <<12499,2,17,0>>, <<12502,2,17,0>>, <<12505,2,17,0>>,
      <<12508,2,17,0>>, <<12532,1,2,0>>, <<12535,4,16,0>>, <<12542,1,2,0>>,
      <<12543,1,2,1>>, <<12593,20,22,1>>, <<12613,10,15,1>>,
      <<12623,21,15,1>>, <<12644,43,22,1>>, <<12690,14,1,1>>,
      <<12800,14,32,1>>, <<12814,1,4,1>>, <<12815,2,20,1>>,
      <<12817,3,20,1>>, <<12820,1,4,1>>, <<12821,2,20,1>>,
      <<12823,5,20,1>>, <<12828,1,4,1>>, <<12829,1,7,1>>, <<12830,1,6,1>>,
      <<12832,36,32,1>>, <<12868,4,1,1>>, <<12880,1,12,1>>,
      <<12881,9,17,1>>, <<12890,6,17,1>>, <<12896,14,22,1>>,
      <<12910,9,23,1>>, <<12919,5,16,1>>, <<12924,1,26,1>>,
      <<12925,1,25,1>>, <<12926,1,2,1>>, <<12928,49,1,1>>,
      <<12977,4,17,1>>, <<12981,10,17,1>>, <<12991,1,11,1>>,
      <<12992,9,16,1>>, <<13001,3,18,1>>, <<13004,1,11,1>>,
      <<13005,1,12,1>>, <<13006,1,11,1>>, <<13007,1,12,1>>,
      <<13008,47,22,1>>, <<13055,1,2,1>>, <<13056,3,25,1>>,
      <<13059,1,24,1>>, <<13060,1,25,1>>, <<13061,2,24,1>>,
      <<13063,1,26,1>>, <<13064,1,25,1>>, <<13065,3,24,1>>,
      <<13068,2,25,1>>, <<13070,2,24,1>>, <<13072,1,2,1>>,
      <<13073,1,24,1>>, <<13074,2,25,1>>, <<13076,1,2,1>>,
      <<13077,1,26,1>>, <<13078,1,27,1>>, <<13079,1,26,1>>,
      <<13080,1,24,1>>, <<13081,2,26,1>>, <<13083,1,25,1>>,
      <<13084,3,24,1>>, <<13087,1,25,1>>, <<13088,1,26,1>>,
      <<13089,1,25,1>>, <<13090,3,24,1>>, <<13093,4,23,1>>,
      <<13097,2,24,1>>, <<13099,1,26,1>>, <<13100,1,24,1>>,
      <<13101,1,25,1>>, <<13102,1,26,1>>, <<13103,1,24,1>>,
      <<13104,2,23,1>>, <<13106,1,26,1>>, <<13107,1,25,1>>,
      <<13108,1,26,1>>, <<13109,1,24,1>>, <<13110,1,26,1>>,
      <<13111,1,2,1>>, <<13112,5,24,1>>, <<13117,1,25,1>>,
      <<13118,1,24,1>>, <<13119,1,2,1>>, <<13120,3,24,1>>,
      <<13123,1,25,1>>, <<13124,3,24,1>>, <<13127,1,26,1>>,
      <<13128,1,25,1>>, <<13129,1,2,1>>, <<13130,1,26,1>>, <<13131,1,2,1>>,
      <<13132,2,25,1>>, <<13134,3,24,1>>, <<13137,1,25,1>>,
      <<13138,1,2,1>>, <<13139,1,24,1>>, <<13140,1,25,1>>, <<13141,1,2,1>>,
      <<13142,1,26,1>>, <<13143,1,24,1>>, <<13144,10,16,1>>,
      <<13154,10,18,1>>, <<13164,5,18,1>>, <<13169,1,12,1>>,
      <<13170,2,11,1>>, <<13172,1,12,1>>, <<13173,3,11,1>>,
      <<13176,2,19,1>>, <<13178,5,2,1>>, <<13183,1,4,1>>, <<13184,8,31,1>>,
      <<13192,1,12,1>>, <<13193,1,13,1>>, <<13194,7,31,1>>,
      <<13201,4,12,1>>, <<13205,4,2,1>>, <<13209,6,31,1>>,
      <<13215,2,24,1>>, <<13217,1,2,1>>, <<13218,3,24,1>>, <<13221,1,2,1>>,
      <<13222,2,3,1>>, <<13224,1,4,1>>, <<13225,1,11,1>>, <<13226,4,12,1>>,
      <<13230,1,14,1>>, <<13231,1,6,1>>, <<13232,16,31,1>>,
      <<13248,2,2,1>>, <<13250,1,13,1>>, <<13251,3,11,1>>,
      <<13254,1,13,1>>, <<13255,1,12,1>>, <<13256,10,11,1>>,
      <<13266,1,12,1>>, <<13267,2,11,1>>, <<13269,2,12,1>>,
      <<13271,1,11,1>>, <<13272,1,13,1>>, <<13273,1,12,1>>,
      <<13274,4,11,1>>, <<13278,2,12,1>>, <<13280,9,16,1>>,
      <<13289,10,18,1>>, <<13299,10,18,1>>, <<13309,2,18,1>>,
      <<13311,1,12,1>>, <<42652,2,1,1>>, <<42864,1,0,1>>, <<42993,4,10,1>>,
      <<43000,2,1,1>>, <<43868,4,1,1>>, <<43881,1,0,1>>, <<63744,41,1,0>>,
      <<63785,127,1,0>>, <<63912,127,1,0>>, <<64042,66,1,0>>,
      <<64108,2,8,0>>, <<64112,95,1,0>>, <<64207,11,8,0>>,
      <<64256,3,11,1>>, <<64259,2,12,1>>, <<64261,2,31,1>>,
      <<64275,5,23,1>>, <<64285,3,2,0>>, <<64288,9,22,1>>, <<64297,1,0,1>>,
      <<64298,6,2,0>>, <<64304,7,16,0>>, <<64312,5,16,0>>, <<64318,1,2,0>>,
      <<64320,2,16,0>>, <<64323,2,16,0>>, <<64326,9,23,0>>,
      <<64335,1,2,1>>, <<64336,98,22,1>>, <<64467,23,22,1>>,
      <<64490,18,23,1>>, <<64508,4,22,1>>, <<64512,94,23,1>>,
      <<64606,5,18,1>>, <<64611,1,24,1>>, <<64612,15,23,1>>,
      <<64627,127,23,1>>, <<64754,3,18,1>>, <<64757,73,23,1>>,
      <<64848,64,24,1>>, <<64914,54,24,1>>, <<65008,2,24,1>>,
      <<65010,7,25,1>>, <<65017,1,24,1>>, <<65018,1,30,1>>,
      <<65019,1,29,1>>, <<65020,1,25,1>>, <<65040,10,1,1>>,
      <<65072,3,22,1>>, <<65075,6,10,1>>, <<65081,12,22,1>>,
      <<65095,24,1,1>>, <<65119,13,10,1>>, <<65136,3,23,1>>,
      <<65140,1,2,1>>, <<65142,10,23,1>>, <<65152,117,22,1>>,
      <<65269,8,23,1>>, <<65281,94,15,1>>, <<65375,2,15,1>>,
      <<65377,63,22,1>>, <<65440,1,0,1>>, <<65441,30,15,1>>,
      <<65474,6,15,1>>, <<65482,6,15,1>>, <<65490,6,15,1>>,
      <<65498,3,15,1>>, <<65504,15,1,1>>, <<67017,1,9,0>>, <<67044,1,9,0>>,
      <<67457,27,1,1>>, <<67484,31,8,1>>, <<69786,3,9,0>>, <<69803,1,9,0>>,
      <<69934,2,9,0>>, <<70475,2,9,0>>, <<70531,3,9,0>>, <<70542,1,9,0>>,
      <<70545,1,9,0>>, <<70597,4,9,0>>, <<70843,4,9,0>>, <<71098,2,9,0>>,
      <<71992,1,9,0>>, <<90401,8,9,0>>, <<93544,3,9,0>>,
      <<117974,26,15,1>>, <<118000,10,15,1>>, <<119134,7,9,0>>,
      <<119227,6,9,0>>, <<119808,26,15,1>>, <<119834,26,15,1>>,
      <<119860,26,15,1>>, <<119886,7,15,1>>, <<119894,18,15,1>>,
      <<119912,26,15,1>>, <<119938,26,15,1>>, <<119964,32,10,1>>,
      <<119997,7,15,1>>, <<120005,11,15,1>>, <<120016,26,15,1>>,
      <<120042,26,15,1>>, <<120068,7,10,1>>, <<120077,8,15,1>>,
      <<120086,7,15,1>>, <<120094,26,15,1>>, <<120120,15,10,1>>,
      <<120138,7,15,1>>, <<120146,26,15,1>>, <<120172,26,15,1>>,
      <<120198,26,15,1>>, <<120224,26,15,1>>, <<120250,26,15,1>>,
      <<120276,26,15,1>>, <<120302,26,15,1>>, <<120328,26,15,1>>,
      <<120354,26,15,1>>, <<120380,26,15,1>>, <<120406,26,15,1>>,
      <<120432,26,15,1>>, <<120458,26,15,1>>, <<120484,2,1,1>>,
      <<120488,17,15,1>>, <<120505,1,0,1>>, <<120506,7,15,1>>,
      <<120513,1,0,1>>, <<120514,25,15,1>>, <<120539,1,0,1>>,
      <<120540,6,22,1>>, <<120546,17,15,1>>, <<120563,1,0,1>>,
      <<120564,7,15,1>>, <<120571,1,0,1>>, <<120572,25,15,1>>,
      <<120597,1,0,1>>, <<120598,6,22,1>>, <<120604,17,15,1>>,
      <<120621,1,0,1>>, <<120622,7,15,1>>, <<120629,1,0,1>>,
      <<120630,25,15,1>>, <<120655,1,0,1>>, <<120656,6,22,1>>,
      <<120662,17,15,1>>, <<120679,1,0,1>>, <<120680,7,15,1>>,
      <<120687,1,0,1>>, <<120688,25,15,1>>, <<120713,1,0,1>>,
      <<120714,6,22,1>>, <<120720,17,15,1>>, <<120737,1,0,1>>,
      <<120738,7,15,1>>, <<120745,1,0,1>>, <<120746,25,15,1>>,
      <<120771,1,0,1>>, <<120772,8,22,1>>, <<120782,10,15,1>>,
      <<120792,10,15,1>>, <<120802,10,15,1>>, <<120812,10,15,1>>,
      <<120822,10,15,1>>, <<122928,9,15,1>>, <<122937,3,15,1>>,
      <<122940,11,15,1>>, <<122951,4,1,1>>, <<122955,33,22,1>>,
      <<122988,2,1,1>>, <<126464,4,22,1>>, <<126469,27,22,1>>,
      <<126497,4,1,1>>, <<126503,1,0,1>>, <<126505,10,22,1>>,
      <<126516,8,1,1>>, <<126530,1,0,1>>, <<126535,56,1,1>>,
      <<126592,10,22,1>>, <<126603,17,22,1>>, <<126625,9,1,1>>,
      <<126635,17,22,1>>, <<127232,1,11,1>>, <<127233,10,16,1>>,
      <<127248,26,18,1>>, <<127274,1,3,1>>, <<127275,2,10,1>>,
      <<127277,2,11,1>>, <<127280,26,15,1>>, <<127306,4,11,1>>,
      <<127310,1,12,1>>, <<127311,1,11,1>>, <<127338,3,11,1>>,
      <<127376,1,11,1>>, <<127488,2,23,1>>, <<127490,1,0,1>>,
      <<127504,44,1,1>>, <<127552,9,32,1>>, <<127568,2,1,1>>,
      <<130032,10,15,1>>, <<194560,3,22,0>>, <<194563,34,8,0>>,
      <<194597,15,22,0>>, <<194612,114,8,0>>, <<194726,14,22,0>>,
      <<194740,4,22,0>>, <<194744,111,8,0>>, <<194855,127,8,0>>,
      <<194982,120,8,0>>
    >>

\* unicode_decomp_table2: the character, or the offset into the data.
unicode_decomp_table2 ==
    <<
      32,0,97,2,4,6,956,8,10,12,21,149,165,185,193,195,199,203,209,215,221,
      224,230,248,264,266,115,272,274,276,288,300,324,333,339,354,360,362,
      374,402,404,425,443,455,465,469,697,471,59,473,475,183,481,508,524,
      536,541,547,551,931,563,575,578,587,590,593,605,608,617,620,623,629,
      632,641,650,668,671,675,687,697,709,713,717,721,725,743,749,753,757,
      761,765,773,777,781,787,791,795,803,807,811,815,821,829,833,841,845,
      849,3851,855,859,863,867,871,875,879,883,889,893,897,901,905,909,913,
      917,921,925,929,4316,933,969,973,985,989,993,1007,1009,1085,1103,
      1177,1264,1282,1354,1380,1388,1392,1395,1434,1530,1534,1543,1547,
      1556,1560,1566,1570,1576,1678,1684,1688,1694,1698,1707,940,1779,941,
      1782,942,1785,943,1788,972,1791,973,1794,974,1797,1801,1805,1809,902,
      1842,1845,953,1847,1851,904,1875,905,1878,912,1899,906,1911,944,1929,
      910,1945,1951,1955,908,1976,911,1979,180,1982,1984,1986,8208,1995,46,
      1997,1999,32,2002,2006,2011,2015,2020,2026,2032,32,2038,8722,2049,
      2053,2055,2077,2085,2087,67,2093,2096,400,2102,2105,78,2117,2119,
      2124,2126,2129,90,937,90,2131,2135,2144,105,2146,2149,2159,2164,2170,
      2174,2210,73,2212,2214,2217,86,2219,2221,2224,2228,88,2230,2232,2235,
      2240,2242,2245,118,2247,2249,2252,2256,120,2258,2260,2263,2267,2270,
      2276,2279,2288,2291,2294,2297,2306,2310,2315,2319,2324,2327,2330,
      2339,2348,2363,2366,2369,2372,2375,2378,2390,2396,2400,2402,2404,
      2408,2410,2416,2424,2428,2432,2438,2441,2447,2449,48,2451,2457,2460,
      2462,2465,2468,11617,27597,40863,2470,2481,2492,2503,2709,2721,2837,
      32,2855,2865,2957,2977,2981,2985,2989,2993,2997,3001,3005,3009,3013,
      3105,3125,3129,3133,3137,3141,3145,3149,3153,3157,3161,3183,3185,
      3187,3232,3260,3292,3300,3308,3316,3324,3332,3340,3348,3362,3374,
      3450,3458,3461,3465,3469,3485,3505,3509,3516,3522,3526,3624,3628,
      3632,3634,3638,3644,3646,3649,3651,3654,3703,3707,3721,3726,3732,
      3740,3747,3753,3764,3774,3782,3786,3791,3801,3805,3812,3820,3827,
      3832,3844,3850,3861,3867,3874,3880,3891,3901,3909,3916,3921,3927,
      3934,3939,3945,3952,3958,3965,3970,3977,3981,3998,4004,4009,4013,
      4024,4030,4041,4048,4054,4058,4065,4069,4079,4090,4096,4100,4105,
      4111,4115,4122,4127,4131,4137,4143,4146,4150,4153,4159,4165,4185,
      4193,4217,4220,4224,4245,4257,4273,4291,4299,4303,4314,4318,4330,
      4338,4340,4352,4357,4369,4417,4425,4429,4435,4439,4442,4462,4465,
      4469,4475,4477,4481,4484,4492,4498,4502,4508,4514,4520,4523,42863,
      4527,4531,4535,653,4543,4625,4879,5133,5265,5270,5460,5485,5491,5497,
      5503,5515,5527,43,5538,5562,5566,5570,5574,5578,5582,5602,5606,5706,
      5731,5769,5775,5965,5971,5976,6008,6264,6270,6418,6612,6776,6784,
      6814,6819,6839,6849,6855,6875,6880,6886,6900,6948,6961,6969,6973,
      6995,7114,7132,7134,7136,12644,7201,7203,7205,7207,7209,7211,7241,
      7246,7251,7305,7375,7389,7394,7403,7412,7426,7431,7436,7454,7472,
      7481,7486,7522,7536,7538,7540,7572,7599,7601,7603,7605,7607,7609,
      7611,7613,7645,7647,7649,7651,7653,7660,7662,7664,7666,7681,7683,
      7685,7687,7689,7691,7693,7695,7697,7699,7701,7703,7705,7707,7709,
      7713,1012,7715,8711,7717,8706,7719,7727,1012,7729,8711,7731,8706,
      7733,7741,1012,7743,8711,7745,8706,7747,7755,1012,7757,8711,7759,
      8706,7761,7769,1012,7771,8711,7773,8706,7775,7785,7787,7789,7791,
      7793,7795,7797,7799,7801,7809,7844,7848,7854,7883,1581,7891,7903,
      1580,7919,8031,8043,8062,8080,8099,8101,8105,8111,8117,8119,8123,
      8125,8133,8136,8138,8144,8146,12469,8152,8240,8262,8266,8268,8273,
      8350,8367,8624,8640,8646,8896,9182
    >>

\* unicode_decomp_data.
unicode_decomp_data ==
    <<
      32,136,32,132,50,51,32,129,32,167,49,111,49,208,52,49,208,50,51,208,
      52,65,128,65,129,65,130,65,131,65,136,65,138,0,0,67,167,69,128,69,
      129,69,130,69,136,73,128,73,129,73,130,73,136,0,0,78,131,79,128,79,
      129,79,130,79,131,79,136,0,0,0,0,85,128,85,129,85,130,85,136,89,129,
      0,0,0,0,97,128,97,129,97,130,97,131,97,136,97,138,0,0,99,167,101,128,
      101,129,101,130,101,136,105,128,105,129,105,130,105,136,0,0,110,131,
      111,128,111,129,111,130,111,131,111,136,0,0,0,0,117,128,117,129,117,
      130,117,136,121,129,0,0,121,136,65,132,65,134,65,168,67,129,67,130,
      67,135,67,140,68,140,69,132,69,134,69,135,69,168,69,140,71,130,71,
      134,71,135,71,167,72,130,73,131,73,132,73,134,73,168,73,135,73,74,
      105,106,74,130,75,167,76,129,76,167,76,140,76,0,0,107,32,107,78,129,
      78,167,78,140,188,2,110,79,132,79,134,79,139,82,129,82,167,82,140,83,
      129,83,130,83,167,83,140,84,167,84,140,85,131,85,132,85,134,85,138,
      85,139,85,168,87,130,89,130,89,136,90,129,90,135,90,140,79,155,85,
      155,68,0,125,1,68,0,126,1,100,0,126,1,76,74,76,106,108,106,78,74,78,
      106,110,106,65,0,140,73,0,140,79,0,140,85,0,140,220,0,132,220,0,129,
      220,0,140,220,0,128,196,0,132,38,2,132,198,0,132,71,140,75,140,79,
      168,234,1,132,235,1,132,183,1,140,146,2,140,106,0,140,68,90,68,122,
      100,122,71,129,78,0,128,197,0,129,198,0,129,216,0,129,65,143,65,145,
      69,143,69,145,73,143,73,145,79,143,79,145,82,143,82,145,85,143,85,
      145,83,166,84,166,72,140,65,0,135,69,0,167,214,0,132,213,0,132,79,0,
      135,46,2,132,89,0,132,104,0,102,2,106,0,114,0,121,2,123,2,129,2,119,
      0,121,0,32,134,32,135,32,138,32,168,32,131,32,139,99,2,108,0,115,0,
      120,0,149,2,128,129,0,147,136,129,32,197,32,129,168,0,129,145,3,129,
      149,3,129,151,3,129,153,3,129,0,0,0,159,3,129,0,0,0,165,3,129,169,3,
      129,202,3,129,1,3,152,7,164,7,176,0,180,0,182,0,184,0,202,0,1,3,184,
      7,196,7,190,0,196,0,200,0,165,3,13,19,0,1,3,209,0,209,7,198,3,192,3,
      186,3,193,3,194,3,0,0,152,3,181,3,21,4,128,21,4,136,0,0,0,19,4,129,6,
      4,136,26,4,129,24,4,128,35,4,134,24,4,134,56,4,134,53,4,128,53,4,136,
      0,0,0,51,4,129,86,4,136,58,4,129,56,4,128,67,4,134,116,4,143,22,4,
      134,16,4,134,16,4,136,21,4,134,216,4,136,22,4,136,23,4,136,24,4,132,
      24,4,136,30,4,136,232,4,136,45,4,136,35,4,132,35,4,136,35,4,139,39,4,
      136,43,4,136,101,5,130,5,39,6,0,44,0,45,33,45,0,46,35,45,39,6,0,77,
      33,77,160,77,35,77,213,6,84,6,0,0,0,0,193,6,84,6,210,6,84,6,40,9,60,
      9,48,9,60,9,51,9,60,9,21,9,0,39,1,39,2,39,7,39,12,39,13,39,22,39,26,
      39,190,9,9,0,9,25,161,9,188,9,175,9,188,9,50,10,60,10,56,10,60,10,22,
      10,0,38,1,38,6,38,43,10,60,10,71,11,86,11,62,11,9,0,9,25,33,11,60,11,
      146,11,215,11,190,11,8,0,9,0,8,25,70,12,86,12,191,12,213,12,198,12,
      213,12,194,12,4,0,8,19,62,13,8,0,9,0,8,25,217,13,202,13,202,13,15,5,
      18,0,15,21,77,14,50,14,205,14,178,14,153,14,18,0,18,8,66,15,183,15,
      76,15,183,15,81,15,183,15,86,15,183,15,91,15,183,15,64,15,181,15,113,
      15,114,15,113,15,0,3,65,15,178,15,129,15,179,15,128,15,179,15,129,15,
      113,15,128,15,146,15,183,15,156,15,183,15,161,15,183,15,166,15,183,
      15,171,15,183,15,144,15,181,15,37,16,46,16,5,27,53,27,0,0,0,0,7,27,
      53,27,0,0,0,0,9,27,53,27,0,0,0,0,11,27,53,27,0,0,0,0,13,27,53,27,17,
      27,53,27,58,27,53,27,0,0,0,0,60,27,53,27,62,27,53,27,66,27,53,27,65,
      0,198,0,66,0,0,0,68,0,69,0,142,1,71,0,79,0,34,2,80,0,82,0,84,0,85,0,
      87,0,97,0,80,2,81,2,2,29,98,0,100,0,101,0,89,2,91,2,92,2,103,0,0,0,
      107,0,109,0,75,1,111,0,84,2,22,29,23,29,112,0,116,0,117,0,29,29,111,
      2,118,0,37,29,178,3,179,3,180,3,198,3,199,3,105,0,114,0,117,0,118,0,
      178,3,179,3,193,3,198,3,199,3,82,2,99,0,85,2,240,0,92,2,102,0,95,2,
      97,2,101,2,104,2,105,2,106,2,123,29,157,2,109,2,133,29,159,2,113,2,
      112,2,114,2,115,2,116,2,117,2,120,2,130,2,131,2,171,1,137,2,138,2,28,
      29,139,2,140,2,122,0,144,2,145,2,146,2,184,3,65,0,165,66,0,135,66,0,
      163,66,0,177,199,0,129,68,0,135,68,0,163,68,0,177,68,0,167,68,0,173,
      18,1,128,18,1,129,69,0,173,69,0,176,40,2,134,70,0,135,71,0,132,72,0,
      135,72,0,163,72,0,136,72,0,167,72,0,174,73,0,176,207,0,129,75,0,129,
      75,0,163,75,0,177,76,0,163,54,30,132,76,177,76,173,77,129,77,135,77,
      163,78,135,78,163,78,177,78,173,213,0,129,213,0,136,76,1,128,76,1,
      129,80,0,129,80,0,135,82,0,135,82,0,163,90,30,132,82,0,177,83,0,135,
      83,0,163,90,1,135,96,1,135,98,30,135,84,0,135,84,0,163,84,0,177,84,0,
      173,85,0,164,85,0,176,85,0,173,104,1,129,106,1,136,86,131,86,163,87,
      128,87,129,87,136,87,135,87,163,88,135,88,136,89,135,90,130,90,163,
      90,177,104,177,116,136,119,138,121,138,97,0,190,2,127,1,135,65,0,163,
      65,0,137,194,0,129,194,0,128,194,0,137,194,0,131,160,30,130,2,1,129,
      2,1,128,2,1,137,2,1,131,160,30,134,69,0,163,69,0,137,69,0,131,202,0,
      129,202,0,128,202,0,137,202,0,131,184,30,130,73,0,137,73,0,163,79,0,
      163,79,0,137,212,0,129,212,0,128,212,0,137,212,0,131,204,30,130,160,
      1,129,160,1,128,160,1,137,160,1,131,160,1,163,85,0,163,85,0,137,175,
      1,129,175,1,128,175,1,137,175,1,131,175,1,163,89,0,128,89,0,163,89,0,
      137,89,0,131,177,3,19,3,0,31,128,0,31,129,0,31,194,145,3,19,3,8,31,
      128,8,31,129,8,31,194,181,3,19,3,16,31,128,16,31,129,149,3,19,3,24,
      31,128,24,31,129,183,3,147,183,3,148,32,31,128,33,31,128,32,31,129,
      33,31,129,32,31,194,33,31,194,151,3,147,151,3,148,40,31,128,41,31,
      128,40,31,129,41,31,129,40,31,194,41,31,194,185,3,147,185,3,148,48,
      31,128,49,31,128,48,31,129,49,31,129,48,31,194,49,31,194,153,3,147,
      153,3,148,56,31,128,57,31,128,56,31,129,57,31,129,56,31,194,57,31,
      194,191,3,147,191,3,148,64,31,128,64,31,129,159,3,19,3,72,31,128,72,
      31,129,197,3,19,3,80,31,128,80,31,129,80,31,194,165,3,148,0,0,0,89,
      31,128,0,0,0,89,31,129,0,0,0,89,31,194,201,3,147,201,3,148,96,31,128,
      97,31,128,96,31,129,97,31,129,96,31,194,97,31,194,169,3,147,169,3,
      148,104,31,128,105,31,128,104,31,129,105,31,129,104,31,194,105,31,
      194,177,3,128,181,3,128,183,3,128,185,3,128,191,3,128,197,3,128,201,
      3,128,0,31,69,3,32,31,69,3,96,31,69,3,177,3,134,177,3,132,112,31,197,
      177,3,197,172,3,197,0,0,0,177,3,194,182,31,197,145,3,134,145,3,132,
      145,3,128,145,3,197,32,147,32,147,32,194,168,0,194,116,31,197,183,3,
      197,174,3,197,0,0,0,183,3,194,198,31,197,149,3,128,151,3,128,151,3,
      197,191,31,128,191,31,129,191,31,194,185,3,134,185,3,132,202,3,128,0,
      3,185,66,202,66,153,6,153,4,153,0,254,31,128,254,31,129,254,31,194,
      197,3,134,197,3,132,203,3,128,0,3,193,19,193,20,197,66,203,66,165,6,
      165,4,165,0,161,3,148,168,0,128,133,3,96,0,124,31,197,201,3,197,206,
      3,197,0,0,0,201,3,194,246,31,197,159,3,128,169,3,128,169,3,197,32,
      148,2,32,32,32,32,32,32,32,32,32,32,32,179,46,46,46,46,46,50,32,50,
      32,50,32,0,0,0,53,32,53,32,53,32,0,0,0,33,33,0,0,32,133,63,63,63,33,
      33,63,50,32,0,0,0,0,48,105,0,0,52,53,54,55,56,57,43,61,40,41,110,48,
      0,43,0,18,34,61,0,40,0,41,0,0,0,97,0,101,0,111,0,120,0,89,2,104,107,
      108,109,110,112,115,116,82,115,97,47,99,97,47,115,176,0,67,99,47,111,
      99,47,117,176,0,70,72,0,31,0,0,0,32,223,1,1,4,36,78,111,80,81,82,82,
      82,83,77,84,69,76,84,77,75,0,197,0,66,67,0,101,69,70,0,77,111,208,5,
      70,65,88,192,3,179,3,147,3,160,3,17,34,68,100,101,105,106,49,208,55,
      49,208,57,49,208,49,48,49,208,51,50,208,51,49,208,53,50,208,53,51,
      208,53,52,208,53,49,208,54,53,208,54,49,208,56,51,208,56,53,208,56,
      55,208,56,49,208,73,73,73,73,73,73,86,86,73,86,73,73,86,73,73,73,73,
      88,88,73,88,73,73,76,67,68,77,105,105,105,105,105,105,105,118,118,
      105,118,105,105,118,105,105,105,105,120,120,105,120,105,105,108,99,
      100,109,48,208,51,144,33,184,146,33,184,148,33,184,208,33,184,212,33,
      184,210,33,184,3,34,184,8,34,184,11,34,184,35,34,184,0,0,0,37,34,184,
      43,34,43,34,43,34,0,0,0,46,34,46,34,46,34,0,0,0,60,34,184,67,34,184,
      69,34,184,0,0,0,72,34,184,61,0,184,0,0,0,97,34,184,77,34,184,60,0,
      184,62,0,184,100,34,184,101,34,184,114,34,184,118,34,184,122,34,184,
      130,34,184,134,34,184,162,34,184,168,34,184,169,34,184,171,34,184,
      124,34,184,145,34,184,178,34,56,3,8,48,49,0,49,0,48,0,50,48,40,0,49,
      0,41,0,40,0,49,0,48,0,41,0,40,50,48,41,49,0,46,0,49,0,48,0,46,0,50,
      48,46,40,0,97,0,41,0,65,0,97,0,43,34,0,0,0,0,58,58,61,61,61,61,61,61,
      221,42,184,106,86,0,78,0,40,54,63,89,133,140,160,186,63,81,0,38,44,
      67,87,108,161,182,193,155,82,0,94,122,127,157,166,193,206,231,182,83,
      200,83,227,83,215,86,31,87,235,88,2,89,10,89,21,89,39,89,115,89,80,
      91,128,91,248,91,15,92,34,92,56,92,110,92,113,92,219,93,229,93,241,
      93,254,93,114,94,122,94,127,94,244,94,254,94,11,95,19,95,80,95,97,95,
      115,95,195,95,8,98,54,98,75,98,47,101,52,101,135,101,151,101,164,101,
      185,101,224,101,229,101,240,102,8,103,40,103,32,107,98,107,121,107,
      179,107,203,107,212,107,219,107,15,108,20,108,52,108,107,112,42,114,
      54,114,59,114,63,114,71,114,89,114,91,114,172,114,132,115,137,115,
      220,116,230,116,24,117,31,117,40,117,48,117,139,117,146,117,118,118,
      125,118,174,118,191,118,238,118,219,119,226,119,243,119,58,121,184,
      121,190,121,116,122,203,122,249,122,115,124,248,124,54,127,81,127,
      138,127,189,127,1,128,12,128,18,128,51,128,127,128,137,128,227,129,0,
      7,16,25,41,56,60,139,143,149,77,134,107,134,64,136,76,136,99,136,126,
      137,139,137,210,137,0,138,55,140,70,140,85,140,120,140,157,140,100,
      141,112,141,179,141,171,142,202,142,155,143,176,143,181,143,145,144,
      73,145,198,145,204,145,209,145,119,149,128,149,28,150,182,150,185,
      150,232,150,81,151,94,151,98,151,105,151,203,151,237,151,243,151,1,
      152,168,152,219,152,223,152,150,153,153,153,172,153,168,154,216,154,
      223,154,37,155,47,155,50,155,60,155,90,155,229,156,117,158,127,158,
      165,158,0,22,30,40,44,84,88,105,110,123,150,165,173,232,247,251,18,
      48,0,0,65,83,68,83,69,83,75,48,153,48,0,0,0,0,77,48,153,48,0,0,0,0,
      79,48,153,48,0,0,0,0,81,48,153,48,0,0,0,0,83,48,153,48,0,0,0,0,85,48,
      153,48,0,0,0,0,87,48,153,48,0,0,0,0,89,48,153,48,0,0,0,0,91,48,153,
      48,0,0,0,0,93,48,153,48,0,0,0,0,95,48,153,48,0,0,0,0,97,48,153,48,
      100,48,153,48,0,0,0,0,102,48,153,48,0,0,0,0,104,48,153,48,111,48,153,
      48,114,48,153,48,117,48,153,48,120,48,153,48,123,48,153,48,70,48,153,
      48,32,0,153,48,157,48,153,48,136,48,138,48,171,48,153,48,0,0,0,0,173,
      48,153,48,0,0,0,0,175,48,153,48,0,0,0,0,177,48,153,48,0,0,0,0,179,48,
      153,48,0,0,0,0,181,48,153,48,0,0,0,0,183,48,153,48,0,0,0,0,185,48,
      153,48,0,0,0,0,187,48,153,48,0,0,0,0,189,48,153,48,0,0,0,0,191,48,
      153,48,0,0,0,0,193,48,153,48,196,48,153,48,0,0,0,0,198,48,153,48,0,0,
      0,0,200,48,153,48,207,48,153,48,210,48,153,48,213,48,153,48,216,48,
      153,48,219,48,153,48,166,48,153,48,239,48,153,48,253,48,153,48,179,
      48,200,48,0,17,0,1,170,2,172,173,3,4,5,176,177,178,179,180,181,26,6,
      7,8,33,9,17,97,17,20,17,76,0,1,179,180,184,186,191,195,197,8,201,203,
      9,10,12,14,15,19,21,23,24,25,26,27,30,34,44,51,56,221,222,67,68,69,
      112,113,116,125,126,128,138,141,0,78,140,78,9,78,219,86,10,78,45,78,
      11,78,50,117,89,78,25,78,1,78,41,89,48,87,186,78,40,0,41,0,0,17,2,17,
      3,17,5,17,6,17,7,17,9,17,11,17,12,17,14,17,15,17,16,17,17,17,18,17,
      40,0,0,17,97,17,41,0,40,0,2,17,97,17,41,0,40,0,5,17,97,17,41,0,40,0,
      9,17,97,17,41,0,40,0,11,17,97,17,41,0,40,0,14,17,97,17,41,0,40,0,12,
      17,110,17,41,0,40,0,11,17,105,17,12,17,101,17,171,17,41,0,40,0,11,17,
      105,17,18,17,110,17,41,0,40,0,41,0,0,78,140,78,9,78,219,86,148,78,
      109,81,3,78,107,81,93,78,65,83,8,103,107,112,52,108,40,103,209,145,
      31,87,229,101,42,104,9,103,62,121,13,84,121,114,161,140,93,121,180,
      82,227,78,124,84,102,91,227,118,1,79,199,140,84,83,109,121,17,79,234,
      129,243,129,79,85,124,94,135,101,143,123,80,84,69,50,0,49,0,51,0,48,
      0,0,17,0,2,3,5,6,7,9,11,12,14,15,16,17,18,0,17,0,97,2,97,3,97,5,97,6,
      97,7,97,9,97,11,97,12,97,14,17,97,17,0,17,14,97,183,0,105,11,17,1,99,
      0,105,11,17,110,17,0,78,140,78,9,78,219,86,148,78,109,81,3,78,107,81,
      93,78,65,83,8,103,107,112,52,108,40,103,209,145,31,87,229,101,42,104,
      9,103,62,121,13,84,121,114,161,140,93,121,180,82,216,121,55,117,115,
      89,105,144,42,81,112,83,232,108,5,152,17,79,153,81,99,107,10,78,45,
      78,11,78,230,93,243,83,59,83,151,91,102,91,227,118,1,79,199,140,84,
      83,28,89,51,0,54,0,52,0,48,0,53,48,49,0,8,103,49,0,48,0,8,103,72,103,
      101,114,103,101,86,76,84,68,162,48,0,2,4,6,8,9,11,13,15,17,19,21,23,
      25,27,29,31,34,36,38,40,41,42,43,44,45,48,51,54,57,60,61,62,63,64,66,
      68,70,71,72,73,74,75,77,78,79,80,228,78,140,84,161,48,1,48,91,39,1,
      74,52,0,1,82,57,1,162,48,0,90,73,164,48,0,39,79,12,164,48,0,79,29,2,
      5,79,168,48,0,17,7,84,33,168,48,0,84,3,84,164,48,6,79,21,6,88,60,7,0,
      70,171,48,0,62,24,29,0,66,63,81,172,48,0,65,71,0,71,50,174,48,172,48,
      174,48,0,29,78,173,48,0,56,61,79,1,62,19,79,173,48,237,48,173,48,0,
      64,3,60,51,173,48,0,64,52,79,27,62,173,48,0,64,66,22,27,176,48,0,57,
      48,164,48,12,69,60,36,79,11,71,24,0,73,175,48,0,62,77,30,177,48,0,75,
      8,2,58,25,2,75,44,164,48,17,0,11,71,181,48,0,62,12,71,43,176,48,7,58,
      67,0,185,48,2,58,8,2,58,15,7,67,0,183,48,16,0,18,52,17,60,19,23,164,
      48,42,31,36,43,0,32,187,48,22,65,0,56,13,196,48,13,56,0,208,48,0,44,
      28,27,162,48,50,0,23,38,73,175,48,37,0,60,179,48,33,0,32,56,161,48,
      52,0,72,34,40,163,48,50,0,89,37,167,48,47,28,16,0,68,213,48,0,20,30,
      175,48,41,0,16,77,60,218,48,189,48,184,48,34,19,26,32,51,12,34,59,1,
      34,68,0,33,68,7,164,48,57,0,79,36,200,48,20,35,0,219,48,243,48,201,
      48,20,42,0,18,51,34,18,51,42,164,48,58,0,11,73,164,48,58,0,71,58,31,
      43,58,71,11,183,48,39,60,0,48,60,175,48,48,0,62,68,223,48,234,48,208,
      48,15,26,0,44,27,225,48,172,48,172,48,53,0,28,71,53,80,28,63,162,48,
      66,90,39,66,90,73,68,0,81,195,48,39,0,5,40,234,48,233,48,212,48,23,0,
      40,214,48,21,38,0,21,236,48,224,48,178,48,58,65,22,0,65,195,48,44,0,
      5,48,0,185,112,49,0,48,0,185,112,50,0,48,0,185,112,104,80,97,100,97,
      65,85,98,97,114,111,86,112,99,100,109,100,0,109,0,178,0,73,0,85,0,
      115,94,16,98,45,102,140,84,39,89,99,107,14,102,187,108,42,104,15,95,
      26,79,62,121,112,0,65,110,0,65,188,3,65,109,0,65,107,0,65,75,0,66,77,
      0,66,71,0,66,99,97,108,107,99,97,108,112,0,70,110,0,70,188,3,70,188,
      3,103,109,0,103,107,0,103,72,0,122,107,72,122,77,72,122,71,72,122,84,
      72,122,188,3,19,33,109,0,19,33,100,0,19,33,107,0,19,33,102,0,109,110,
      0,109,188,3,109,109,0,109,99,0,109,107,0,109,99,0,10,10,79,0,10,79,
      109,0,178,0,99,0,8,10,79,10,10,80,0,10,80,109,0,179,0,107,0,109,0,
      179,0,109,0,21,34,115,0,109,0,21,34,115,0,178,0,80,97,107,80,97,77,
      80,97,71,80,97,114,97,100,114,97,100,209,115,114,0,97,0,100,0,21,34,
      115,0,178,0,112,0,115,110,0,115,188,3,115,109,0,115,112,0,86,110,0,
      86,188,3,86,109,0,86,107,0,86,77,0,86,112,0,87,110,0,87,188,3,87,109,
      0,87,107,0,87,77,0,87,107,0,169,3,77,0,169,3,97,46,109,46,66,113,99,
      99,99,100,67,209,107,103,67,111,46,100,66,71,121,104,97,72,80,105,
      110,75,75,75,77,107,116,108,109,108,110,108,111,103,108,120,109,98,
      109,105,108,109,111,108,80,72,112,46,109,46,80,80,77,80,82,115,114,
      83,118,87,98,86,209,109,65,209,109,49,0,229,101,49,0,48,0,229,101,50,
      0,48,0,229,101,51,0,48,0,229,101,103,97,108,74,4,76,4,83,67,70,81,38,
      1,83,1,39,167,55,171,107,2,82,171,72,140,244,102,202,142,200,140,209,
      110,50,78,229,83,156,159,156,159,81,89,209,145,135,85,72,89,246,97,
      105,118,133,127,63,134,186,135,248,136,143,144,2,106,27,109,217,112,
      222,115,61,132,106,145,241,153,130,78,117,83,4,107,27,114,45,134,30,
      158,80,93,235,111,205,133,100,137,201,98,216,129,31,136,202,94,23,
      103,106,109,252,114,206,144,134,79,183,81,222,82,196,100,211,106,16,
      114,231,118,1,128,6,134,92,134,239,141,50,151,111,155,250,157,140,
      120,127,121,160,125,201,131,4,147,127,158,214,138,223,88,4,95,96,124,
      126,128,98,114,202,120,194,140,247,150,216,88,98,92,19,106,218,109,
      15,111,47,125,55,126,75,150,210,82,139,128,220,81,204,81,28,122,190,
      125,241,131,117,150,128,139,207,98,2,106,254,138,57,78,231,91,18,96,
      135,115,112,117,23,83,251,120,191,79,169,95,13,78,204,108,120,101,34,
      125,195,83,94,88,1,119,73,132,170,138,186,107,176,143,136,108,254,98,
      229,130,160,99,101,117,174,78,105,81,201,81,129,104,231,124,111,130,
      210,138,207,145,245,82,66,84,115,89,236,94,197,101,254,111,42,121,
      173,149,106,154,151,158,206,158,155,82,198,102,119,107,98,143,116,94,
      144,97,0,98,154,100,35,111,73,113,137,116,202,121,244,125,111,128,38,
      143,238,132,35,144,74,147,23,82,163,82,189,84,200,112,194,136,170,
      138,201,94,245,95,123,99,174,107,62,124,117,115,228,78,249,86,231,91,
      186,93,28,96,178,115,105,116,154,127,70,128,52,146,246,150,72,151,24,
      152,139,79,174,121,180,145,184,150,225,96,134,78,218,80,238,91,63,92,
      153,101,2,106,206,113,66,118,252,132,124,144,141,159,136,102,46,150,
      137,82,123,103,243,103,65,109,156,110,9,116,89,117,107,120,16,125,94,
      152,109,81,46,98,120,150,43,80,25,93,234,109,42,143,139,95,68,97,23,
      104,135,115,134,150,41,82,15,84,101,92,19,102,78,103,168,104,229,108,
      6,116,226,117,121,127,207,136,225,136,204,145,226,150,63,83,186,110,
      29,84,208,113,152,116,250,133,163,150,87,156,159,158,151,103,203,109,
      232,129,203,122,32,123,146,124,192,114,153,112,88,139,192,78,54,131,
      58,82,7,82,166,94,211,98,214,124,133,91,30,109,180,102,59,143,76,136,
      77,150,139,137,211,94,64,81,192,85,0,0,0,0,90,88,0,0,116,102,0,0,0,0,
      222,81,42,115,202,118,60,121,94,121,101,121,143,121,86,151,190,124,
      189,127,0,0,18,134,0,0,248,138,0,0,0,0,56,144,253,144,239,152,252,
      152,40,153,180,157,222,144,183,150,174,79,231,80,77,81,201,82,228,82,
      81,83,157,85,6,86,104,86,64,88,168,88,100,92,110,92,148,96,104,97,
      142,97,242,97,79,101,226,101,145,102,133,104,119,109,26,110,34,111,
      110,113,43,114,34,116,145,120,62,121,73,121,72,121,80,121,86,121,93,
      121,141,121,142,121,64,122,129,122,192,123,244,125,9,126,65,126,114,
      127,5,128,237,129,121,130,121,130,87,132,16,137,150,137,1,139,57,139,
      211,140,8,141,182,143,56,144,227,150,255,151,59,152,117,96,238,66,24,
      130,2,38,78,181,81,104,81,128,79,69,81,128,81,199,82,250,82,157,85,
      85,85,153,85,226,85,90,88,179,88,68,89,84,89,98,90,40,91,210,94,217,
      94,105,95,173,95,216,96,78,97,8,97,142,97,96,97,242,97,52,98,196,99,
      28,100,82,100,86,101,116,102,23,103,27,103,86,103,121,107,186,107,65,
      109,219,110,203,110,34,111,30,112,110,113,167,119,53,114,175,114,42,
      115,113,116,6,117,59,117,29,118,31,118,202,118,219,118,244,118,74,
      119,64,119,204,120,177,122,192,123,123,124,91,125,244,125,62,127,5,
      128,82,131,239,131,121,135,65,137,134,137,150,137,191,138,248,138,
      203,138,1,139,254,138,237,138,57,139,138,139,8,141,56,143,114,144,
      153,145,118,146,124,150,227,150,86,151,219,151,255,151,11,152,59,152,
      18,155,156,159,74,40,68,40,213,51,157,59,24,64,57,64,73,82,208,92,
      211,126,67,159,142,159,42,160,2,102,102,102,105,102,108,102,102,105,
      102,102,108,127,1,116,115,0,116,101,5,15,17,15,0,15,6,25,17,15,8,217,
      5,180,5,0,0,0,0,242,5,183,5,208,5,18,0,3,4,11,12,13,24,26,233,5,193,
      5,233,5,194,5,73,251,193,5,73,251,194,5,208,5,183,5,208,5,184,5,208,
      5,188,5,216,5,188,5,222,5,188,5,224,5,188,5,227,5,188,5,185,5,45,3,
      46,3,47,3,48,3,49,3,28,0,24,6,34,6,43,6,208,5,220,5,113,6,0,0,10,10,
      10,10,13,13,13,13,15,15,15,15,9,9,9,9,14,14,14,14,8,8,8,8,51,51,51,
      51,53,53,53,53,19,19,19,19,18,18,18,18,21,21,21,21,22,22,22,22,28,28,
      27,27,29,29,23,23,39,39,32,32,56,56,56,56,62,62,62,62,66,66,66,66,64,
      64,64,64,73,73,74,74,74,74,79,79,80,80,80,80,77,77,77,77,97,97,98,98,
      73,6,100,100,100,100,126,126,125,125,127,127,46,130,130,124,124,128,
      128,135,135,135,135,0,0,38,6,0,1,0,1,0,175,0,175,0,34,0,34,0,161,0,
      161,0,160,0,160,0,162,0,162,0,170,0,170,0,170,0,35,0,35,0,35,204,6,0,
      0,0,0,38,6,0,6,0,7,0,31,0,35,0,36,2,6,2,7,2,8,2,31,2,35,2,36,4,6,4,7,
      4,8,4,31,4,35,4,36,5,6,5,31,5,35,5,36,6,7,6,31,7,6,7,31,8,6,8,7,8,31,
      13,6,13,7,13,8,13,31,15,7,15,31,16,6,16,7,16,8,16,31,17,7,17,31,18,
      31,19,6,19,31,20,6,20,31,27,6,27,7,27,8,27,31,27,35,27,36,28,7,28,31,
      28,35,28,36,29,1,29,6,29,7,29,8,29,30,29,31,29,35,29,36,30,6,30,7,30,
      8,30,31,30,35,30,36,31,6,31,7,31,8,31,31,31,35,31,36,32,6,32,7,32,8,
      32,31,32,35,32,36,33,6,33,31,33,35,33,36,36,6,36,7,36,8,36,31,36,35,
      36,36,10,74,11,74,35,74,32,0,76,6,81,6,81,6,255,0,31,38,6,0,11,0,12,
      0,31,0,32,0,35,0,36,2,11,2,12,2,31,2,32,2,35,2,36,4,11,4,12,4,31,38,
      6,4,32,4,35,4,36,5,11,5,12,5,31,5,32,5,35,5,36,27,35,27,36,28,35,28,
      36,29,1,29,30,29,31,29,35,29,36,30,31,30,35,30,36,31,1,31,31,32,11,
      32,12,32,31,32,32,32,35,32,36,35,74,36,11,36,12,36,31,36,32,36,35,36,
      36,0,6,0,7,0,8,0,31,0,33,2,6,2,7,2,8,2,31,2,33,4,6,4,7,4,8,4,31,4,33,
      5,31,6,7,6,31,7,6,7,31,8,6,8,31,13,6,13,7,13,8,13,31,15,7,15,8,15,31,
      16,6,16,7,16,8,16,31,17,7,18,31,19,6,19,31,20,6,20,31,27,6,27,7,27,8,
      27,31,28,7,28,31,29,6,29,7,29,8,29,30,29,31,30,6,30,7,30,8,30,31,30,
      33,31,6,31,7,31,8,31,31,32,6,32,7,32,8,32,31,32,33,33,6,33,31,33,74,
      36,6,36,7,36,8,36,31,36,33,0,31,0,33,2,31,2,33,4,31,4,33,5,31,5,33,
      13,31,13,33,14,31,14,33,29,30,29,31,30,31,32,31,32,33,36,31,36,33,64,
      6,78,6,81,6,39,6,16,34,16,35,18,34,18,35,19,34,19,35,12,34,12,35,13,
      34,13,35,6,34,6,35,5,34,5,35,7,34,7,35,14,34,14,35,15,34,15,35,13,5,
      13,6,13,7,13,30,13,10,12,10,14,10,15,10,16,34,16,35,18,34,18,35,19,
      34,19,35,12,34,12,35,13,34,13,35,6,34,6,35,5,34,5,35,7,34,7,35,14,34,
      14,35,15,34,15,35,13,5,13,6,13,7,13,30,13,10,12,10,14,10,15,10,13,5,
      13,6,13,7,13,30,12,32,13,32,16,30,12,5,12,6,12,7,13,5,13,6,13,7,16,
      30,17,30,0,36,0,36,42,6,0,2,27,0,3,2,0,3,2,0,3,27,0,4,27,0,27,2,0,27,
      3,0,27,4,2,27,3,2,27,3,3,27,32,3,27,31,9,3,2,9,2,3,9,2,31,9,27,3,9,
      27,3,9,27,2,9,27,27,9,27,27,11,3,3,11,3,3,11,27,27,10,3,27,10,3,27,
      10,2,32,10,27,4,10,27,4,10,27,27,10,27,27,12,3,31,12,4,27,12,4,27,13,
      27,3,13,27,3,13,27,27,13,27,32,15,2,27,15,27,27,15,27,27,15,27,31,16,
      27,27,16,27,32,16,27,31,23,4,27,23,4,27,24,27,3,24,27,27,26,3,27,26,
      3,32,26,3,31,26,2,2,26,2,2,26,4,27,26,4,27,26,27,3,26,27,3,27,3,2,27,
      3,27,27,3,32,27,2,3,27,2,27,27,4,2,27,4,27,40,6,29,4,6,31,29,4,31,29,
      29,30,5,29,30,5,33,30,4,29,30,4,29,30,4,33,30,29,34,30,29,33,34,29,
      29,34,29,29,0,6,34,2,4,34,2,4,33,2,6,34,2,6,33,2,29,34,2,29,33,4,29,
      34,4,5,33,4,29,33,11,6,33,13,5,34,12,5,34,14,5,34,28,4,34,28,29,34,
      34,5,34,34,4,34,34,29,34,29,29,34,26,29,34,30,5,34,26,29,5,28,5,29,
      17,29,34,27,29,34,30,4,5,29,6,34,28,4,29,27,29,29,28,4,29,30,4,5,4,5,
      34,5,4,34,29,4,34,25,29,34,0,5,34,27,29,29,17,4,29,13,29,29,11,6,34,
      30,4,34,53,6,0,15,157,13,15,157,39,6,0,29,29,32,0,28,1,10,30,6,30,8,
      14,29,18,30,10,12,33,29,18,29,35,32,33,12,29,30,53,6,0,15,20,39,6,14,
      29,34,255,0,29,29,32,255,18,29,35,32,255,33,12,29,30,39,6,5,29,255,5,
      29,0,29,32,39,6,10,165,0,29,44,0,1,48,2,48,58,0,59,0,33,0,63,0,22,48,
      23,48,38,32,19,32,18,1,0,95,95,40,41,123,125,8,48,12,13,8,9,2,3,0,1,
      4,5,6,7,91,0,93,0,62,32,62,32,62,32,62,32,95,0,95,0,95,0,44,0,1,48,
      46,0,0,0,59,0,58,0,63,0,33,0,20,32,40,0,41,0,123,0,125,0,20,48,21,48,
      35,38,42,43,45,60,62,61,0,92,36,37,64,64,6,255,11,0,11,255,12,32,0,
      77,6,64,6,255,14,0,14,255,15,0,15,255,16,0,16,255,17,0,17,255,18,0,
      18,33,6,0,1,1,2,2,3,3,4,4,5,5,5,5,6,6,7,7,7,7,8,8,9,9,9,9,10,10,10,
      10,11,11,11,11,12,12,12,12,13,13,13,13,14,14,15,15,16,16,17,17,18,18,
      18,18,19,19,19,19,20,20,20,20,21,21,21,21,22,22,22,22,23,23,23,23,24,
      24,24,24,25,25,25,25,32,32,32,32,33,33,33,33,34,34,34,34,35,35,35,35,
      36,36,36,36,37,37,37,37,38,38,38,38,39,39,40,40,41,41,41,41,34,6,34,
      0,34,0,34,1,34,1,34,3,34,3,34,5,34,5,33,0,133,41,1,48,1,11,12,0,250,
      241,160,162,164,166,168,226,228,230,194,251,161,163,165,167,169,170,
      172,174,176,178,180,182,184,186,188,190,192,195,197,199,201,202,203,
      204,205,206,209,212,215,218,221,222,223,224,225,227,229,231,232,233,
      234,235,236,238,242,152,153,49,49,79,49,85,49,91,49,97,49,162,0,163,
      0,172,0,175,0,166,0,165,0,169,32,0,0,2,37,144,33,145,33,146,33,147,
      33,160,37,203,37,210,5,7,3,1,218,5,7,3,1,208,2,209,2,230,0,153,2,83,
      2,0,0,163,2,102,171,165,2,164,2,86,2,87,2,145,29,88,2,94,2,169,2,100,
      2,98,2,96,2,155,2,39,1,156,2,103,2,132,2,170,2,171,2,108,2,4,223,142,
      167,110,2,5,223,142,2,6,223,248,0,118,2,119,2,113,0,122,2,8,223,125,
      2,126,2,128,2,168,2,166,2,103,171,167,2,136,2,113,44,0,0,143,2,161,2,
      162,2,152,2,192,1,193,1,194,1,10,223,30,223,65,4,64,0,0,0,0,20,153,
      16,186,16,0,0,0,0,155,16,186,16,5,5,165,16,186,16,5,49,17,39,17,50,
      17,39,17,85,71,19,62,19,71,19,87,19,85,130,19,201,19,0,0,0,0,132,19,
      187,19,5,5,139,19,194,19,5,144,19,201,19,5,194,19,194,19,0,0,0,0,194,
      19,184,19,194,19,201,19,5,85,185,20,186,20,185,20,176,20,0,0,0,0,185,
      20,189,20,85,80,184,21,175,21,185,21,175,21,85,53,25,48,25,5,30,97,
      30,97,30,97,41,97,30,97,31,97,41,97,31,97,30,97,32,97,33,97,31,97,34,
      97,31,97,33,97,32,97,85,85,85,85,103,109,103,109,99,109,103,109,105,
      109,103,109,85,5,65,0,48,0,87,209,101,209,88,209,101,209,95,209,110,
      209,95,209,111,209,95,209,112,209,95,209,113,209,95,209,114,209,85,
      85,85,5,185,209,101,209,186,209,101,209,187,209,110,209,188,209,110,
      209,187,209,111,209,188,209,111,209,85,85,85,65,0,97,0,65,0,97,0,105,
      0,65,0,97,0,65,0,67,68,0,0,71,0,0,74,75,0,0,78,79,80,81,0,83,84,85,
      86,87,88,89,90,97,98,99,100,0,102,104,0,112,0,65,0,97,0,65,66,0,68,
      69,70,71,74,0,83,0,97,0,65,66,0,68,69,70,71,0,73,74,75,76,77,0,79,83,
      0,97,0,65,0,97,0,65,0,97,0,65,0,97,0,65,0,97,0,65,0,97,0,65,0,97,0,
      49,1,55,2,145,3,163,3,177,3,209,3,36,0,31,4,32,5,145,3,163,3,177,3,
      209,3,36,0,31,4,32,5,145,3,163,3,177,3,209,3,36,0,31,4,32,5,145,3,
      163,3,177,3,209,3,36,0,31,4,32,5,145,3,163,3,177,3,209,3,36,0,31,4,
      32,5,11,12,48,0,48,0,48,0,48,0,48,0,48,4,58,4,62,4,75,4,77,4,78,4,
      137,166,48,4,169,38,40,185,127,159,0,1,2,3,4,5,6,7,8,10,11,14,15,17,
      19,20,21,22,23,24,26,27,97,38,37,47,123,81,166,177,4,39,6,0,1,5,8,42,
      6,30,8,3,13,32,25,26,27,28,9,15,23,11,24,7,10,0,1,4,6,12,14,16,68,
      144,119,69,40,6,44,6,0,0,71,6,51,6,23,16,17,18,19,0,6,14,2,15,52,6,
      42,6,43,6,46,6,0,0,54,6,0,0,58,6,45,6,0,0,74,6,0,0,68,6,0,0,70,6,51,
      6,57,6,0,0,53,6,66,6,0,0,52,6,0,0,0,0,46,6,0,0,54,6,0,0,58,6,0,0,186,
      6,0,0,111,6,0,0,40,6,44,6,0,0,71,6,0,0,0,0,45,6,55,6,74,6,67,6,0,0,
      69,6,70,6,51,6,57,6,65,6,53,6,66,6,0,0,52,6,42,6,43,6,46,6,0,0,54,6,
      56,6,58,6,110,6,0,0,161,6,39,6,0,1,5,8,32,33,11,6,16,35,42,6,26,27,
      28,9,15,23,11,24,7,10,0,1,4,6,12,14,16,40,6,44,6,47,6,0,0,72,6,50,6,
      45,6,55,6,74,6,42,6,26,27,28,9,15,23,11,24,7,10,0,1,4,6,12,14,16,48,
      46,48,0,44,0,40,0,65,0,41,0,20,48,83,0,21,48,67,82,67,68,87,90,65,0,
      72,86,77,86,83,68,83,83,80,80,86,87,67,77,67,77,68,77,82,68,74,75,48,
      48,0,104,104,75,98,87,91,204,83,199,48,140,78,26,89,227,137,41,89,
      164,78,32,102,33,113,153,101,77,82,140,95,141,81,176,101,29,82,66,
      125,31,117,169,140,240,88,57,84,20,111,149,98,85,99,0,78,9,78,74,144,
      230,93,45,78,243,83,7,99,112,141,83,98,129,121,122,122,8,84,128,110,
      9,103,8,103,51,117,114,82,182,85,77,145,20,48,21,48,44,103,9,78,140,
      78,137,91,185,112,83,98,215,118,221,82,87,101,151,95,239,83,48,0,56,
      78,5,0,9,34,1,96,79,174,79,187,79,2,80,122,80,153,80,231,80,207,80,
      158,52,58,6,77,81,84,81,100,81,119,81,28,5,185,52,103,81,141,81,75,5,
      151,81,164,81,204,78,172,81,181,81,223,145,245,81,3,82,223,52,59,82,
      70,82,114,82,119,82,21,53,2,0,32,128,128,0,8,0,0,199,82,0,2,29,51,62,
      63,80,130,138,147,172,182,184,184,184,44,10,112,112,202,83,223,83,99,
      11,235,83,241,83,6,84,158,84,56,84,72,84,104,84,162,84,246,84,16,85,
      83,85,99,85,132,85,132,85,153,85,171,85,179,85,194,85,22,87,6,86,23,
      87,81,86,116,86,7,82,238,88,206,87,244,87,13,88,139,87,50,88,49,88,
      172,88,228,20,242,88,247,88,6,89,26,89,34,89,98,89,168,22,234,22,236,
      89,27,90,39,90,216,89,102,90,238,54,252,54,8,91,62,91,62,91,200,25,
      195,91,216,91,231,91,243,91,24,27,255,91,6,92,83,95,34,92,129,55,96,
      92,110,92,192,92,141,92,228,29,67,93,230,29,110,93,107,93,124,93,225,
      93,226,93,47,56,253,93,40,94,61,94,105,94,98,56,131,33,124,56,176,94,
      179,94,182,94,202,94,146,163,254,94,49,35,49,35,1,130,34,95,34,95,
      199,56,184,50,218,97,98,95,107,95,227,56,154,95,205,95,215,95,249,95,
      129,96,58,57,28,57,148,96,212,38,199,96,2,2,0,0,0,0,0,0,0,8,0,10,0,0,
      2,8,0,128,8,0,0,8,128,40,128,2,0,0,2,72,97,0,4,6,4,50,70,106,92,103,
      150,170,174,200,211,93,98,0,84,119,243,12,43,61,99,252,98,104,99,131,
      99,228,99,241,43,34,100,197,99,169,99,46,58,105,100,126,100,157,100,
      119,100,108,58,79,101,108,101,10,48,227,101,248,102,73,102,25,59,145,
      102,8,59,228,58,146,81,149,81,0,103,156,102,173,128,217,67,23,103,27,
      103,33,103,94,103,83,103,195,51,73,59,250,103,133,103,82,104,133,104,
      109,52,142,104,31,104,20,105,157,59,66,105,163,105,234,105,168,106,
      163,54,219,106,24,60,33,107,167,56,84,107,78,60,114,107,159,107,186,
      107,187,107,141,58,11,29,250,58,78,108,188,60,191,108,205,108,103,
      108,22,109,62,109,119,109,65,109,105,109,120,109,133,109,30,61,52,
      109,47,110,110,110,51,61,203,110,199,110,209,62,249,109,110,111,94,
      63,142,63,198,111,57,112,30,112,27,112,150,61,74,112,125,112,119,112,
      173,112,37,5,69,113,99,66,156,113,171,67,40,114,53,114,80,114,8,70,
      128,114,149,114,53,71,2,32,0,0,32,0,0,0,0,8,128,0,0,2,2,128,138,0,0,
      32,0,8,10,0,128,136,128,32,20,72,122,115,139,115,172,62,165,115,184,
      62,184,62,71,116,92,116,113,116,133,116,202,116,27,63,36,117,54,76,
      62,117,146,76,112,117,159,33,16,118,161,79,184,79,68,80,252,63,8,64,
      244,118,243,80,242,80,25,81,51,81,30,119,31,119,31,119,74,119,57,64,
      139,119,70,64,150,64,29,84,78,120,140,120,204,120,227,64,38,86,86,
      121,154,86,197,86,143,121,235,121,47,65,64,122,74,122,79,122,124,89,
      167,90,167,90,238,122,2,66,171,91,198,123,201,123,39,66,128,92,210,
      124,160,66,232,124,227,124,0,125,134,95,99,125,1,67,199,125,2,126,69,
      126,52,67,40,98,71,98,89,67,217,98,122,127,62,99,149,127,250,127,5,
      128,218,100,35,101,96,128,168,101,112,128,95,51,213,67,178,128,3,129,
      11,68,62,129,181,90,167,103,181,103,147,51,156,51,1,130,4,130,158,
      143,107,68,145,130,139,130,157,130,179,82,177,130,179,130,189,130,
      230,130,60,107,229,130,29,131,99,131,173,131,35,131,189,131,231,131,
      87,132,83,131,202,131,204,131,220,131,54,108,107,109,2,0,0,32,34,42,
      160,10,0,32,128,40,0,168,32,32,0,2,128,34,2,138,8,0,170,0,0,0,2,0,0,
      40,213,108,43,69,241,132,243,132,22,133,202,115,100,133,44,111,93,69,
      97,69,177,111,210,112,107,69,80,134,92,134,103,134,105,134,169,134,
      136,134,14,135,226,134,121,135,40,135,107,135,134,135,215,69,225,135,
      1,136,249,69,96,136,99,136,103,118,215,136,222,136,53,70,250,136,187,
      52,174,120,102,121,190,70,199,70,160,138,237,138,138,139,85,140,168,
      124,171,140,193,140,27,141,119,141,47,127,4,8,203,141,188,141,240,
      141,222,8,212,142,56,143,210,133,237,133,148,144,241,144,17,145,46,
      135,27,145,56,146,215,146,216,146,124,146,249,147,21,148,250,139,139,
      149,149,73,183,149,119,141,230,73,195,150,178,93,35,151,69,145,26,
      146,110,74,118,74,224,151,10,148,178,74,150,148,11,152,11,152,41,152,
      182,149,226,152,51,75,41,153,167,153,194,153,254,153,206,75,48,155,
      18,155,64,156,253,156,206,76,237,76,103,157,206,160,248,76,5,161,14,
      162,145,162,187,158,86,77,249,158,254,158,5,159,15,159,22,159,59,159,
      0,166,2,136,160,0,0,0,0,128,0,40,0,8,160,128,160,128,0,128,128,0,10,
      136,128,0,128,0,32,42,0,128
    >>

\* unicode_comp_table: entry of unicode_decomp_table1 * 64 + offset.
unicode_comp_table ==
    <<
      18945,18880,18946,640,641,642,643,704,706,2560,644,9282,645,1984,
      2432,2434,9280,8832,708,8834,8836,8838,710,712,714,716,647,8842,718,
      8844,8848,8850,8846,648,649,650,9346,768,770,772,651,9344,776,2436,
      2438,9304,2562,774,8856,8858,8862,2304,778,8864,780,782,2112,784,786,
      8866,8870,2496,8868,8872,8874,652,653,654,832,834,836,896,655,9358,
      1986,2440,2442,9360,838,8876,1024,8880,2114,8882,1026,8884,1088,1092,
      8886,1090,8898,8896,8900,8902,8904,2368,1216,657,8906,1220,8908,1218,
      8912,8910,658,659,660,661,1344,1346,2568,662,9364,1348,1988,2444,
      2446,1728,9362,2116,8968,8970,1408,8972,1412,2448,2450,8974,1410,
      8978,1414,1416,8980,1420,8982,2456,1418,8990,1424,8992,2458,1422,
      8996,8994,665,666,667,1472,1474,1476,668,9388,1478,1480,1990,2452,
      2454,1792,9386,8998,1482,9002,9000,9024,9026,9028,9030,1484,9034,
      9032,9036,9038,9040,9400,669,1486,9406,2572,9042,1536,9404,9402,1600,
      9044,1602,1604,9046,9048,672,673,674,675,705,707,2561,676,9283,677,
      1985,2433,2435,9281,8833,709,8835,8837,8839,711,713,715,717,679,8843,
      719,8845,8849,8851,8847,680,681,682,9347,769,771,773,683,9345,777,
      2437,2439,9305,2563,775,8857,8859,8863,2305,779,8865,781,783,2113,
      785,787,8867,8871,2497,8869,8873,8875,9088,684,685,686,833,835,837,
      687,9359,1987,2441,2443,9361,839,8877,1025,2180,8881,2115,8883,1027,
      8885,1089,1093,8887,1091,8899,8897,8901,8903,8905,2369,1217,689,8907,
      1221,8909,1219,8913,8911,690,691,692,693,1345,1347,2569,694,9365,
      1349,1989,2445,2447,1729,9363,2117,8969,8971,1409,8973,1413,2449,
      2451,8975,1411,8979,1415,1417,8981,1421,8983,2457,1419,8991,9089,
      1425,8993,2459,1423,8997,8995,697,698,699,1473,1475,1477,700,9389,
      1479,1481,1991,2453,2455,1793,9387,8999,1483,9003,9001,9025,9027,
      9029,9031,1485,9035,9033,9090,9037,9039,9041,9401,701,1487,9407,2573,
      9043,703,9405,9091,9403,1601,9045,1603,1605,9047,9049,12545,3200,
      11776,9286,9284,9290,9288,2048,2370,2372,2052,8840,9350,9348,9354,
      9352,8878,9368,9366,9372,9370,8960,2566,8962,2564,2374,1998,1994,
      1992,1996,9287,9285,9291,9289,2049,2371,2373,2053,8841,9351,9349,
      9355,9353,8879,9369,9367,9373,9371,8961,2567,8963,2565,2375,1999,
      1995,1993,1997,9296,9294,9300,9298,9297,9295,9301,9299,8852,8854,
      8853,8855,8964,8966,8965,8967,8984,8985,8986,8987,9004,9005,9006,
      9007,9216,9378,9376,9382,9380,9384,9379,9377,9383,9381,9385,9392,
      9390,9396,9394,9398,9393,9391,9397,9395,9399,2178,2176,2177,2050,
      2051,8860,8861,2570,2571,2179,2880,11402,3201,11401,11400,9536,9537,
      11520,11783,3328,9792,9793,11904,3329,9928,9929,12032,12164,3330,
      12163,12162,3392,9944,9945,12678,3332,10048,10049,12544,12422,3334,
      12421,12420,3393,10304,12800,3335,10319,10320,12928,11396,11779,
      10327,3394,11393,11392,9408,9409,11398,11395,10432,3395,9664,9665,
      10560,3396,9920,9921,11781,11778,10688,3397,12037,12036,3456,9936,
      9937,12160,10816,3458,9952,9953,12416,12417,10944,3459,12292,12291,
      3457,10176,10177,12418,11072,3460,10311,10312,12676,12673,12038,3336,
      12161,12293,3398,12419,12674,3584,3585,3904,4480,4482,3843,3840,4544,
      3841,4416,4610,4612,3969,4672,4032,4674,3968,4676,4740,3970,4742,
      4744,4746,4800,4738,4481,4483,4163,4160,4545,4161,4417,4611,4613,
      4289,4673,4096,4675,4288,4677,4741,4290,4743,4745,4747,4801,4739,
      4224,4352,4353,4608,4609,4736,4737,4928,4929,4931,4930,4932,5058,
      5120,5056,5184,5248,5312,5440,5441,5952,5888,5953,6080,6144,6146,
      6145,6208,6272,6400,6336,6337,6401,6464,6466,6465,6528,6592,6594,
      6593,7296,7360,7616,8064,8192,8194,8196,8198,8200,8256,8320,8322,
      8384,8385,8448,8888,8889,8976,8977,8988,8989,9292,9302,9293,9303,
      9356,9357,9374,9375,9472,9474,9476,11200,9473,9475,9477,11201,11202,
      11203,11204,11205,11206,11207,9600,9602,9604,11208,9601,9603,9605,
      11209,11210,11211,11212,11213,11214,11215,9728,9730,9729,9731,9856,
      9858,9857,9859,9922,9924,9926,11264,9923,9925,9927,11265,11266,11267,
      11268,11269,11270,11271,9930,9932,9934,11272,9931,9933,9935,11273,
      11274,11275,11276,11277,11278,11279,9938,9940,9942,9939,9941,9943,
      9946,9948,9950,9947,9949,9951,9984,9986,9985,9987,10112,10114,10113,
      10115,10240,10242,10244,10241,10243,10245,10306,10308,10310,10313,
      10315,10317,11328,10314,10316,10318,11329,11330,11331,11332,11333,
      11334,11335,10321,10323,10325,11336,10322,10324,10326,11337,11338,
      11339,11340,11341,11342,11343,11394,11777,12672,11399,12033,12034,
      12035,11782,12677,12288,12289,12290,17984,17985,18048,18112,18114,
      18113,18176,18240,18304,18368,18370,18688,18752,18816,18818,18944,
      18882,18947,18948,19008,19009,19072,19073,19136,19137,19392,19393,
      19200,19201,19264,19265,19394,19395,19328,19329,19330,19331,19456,
      19457,19458,19459,22016,21568,21570,21572,21574,21576,21578,21580,
      21582,21584,21586,21588,21590,21632,21634,21636,21696,21697,21760,
      21761,21824,21825,21888,21889,21952,21953,22144,22720,22272,22274,
      22276,22278,22280,22282,22284,22286,22288,22290,22292,22294,22336,
      22338,22340,22400,22401,22464,22465,22528,22529,22592,22593,22656,
      22657,22784,22785,22786,22787,22848,36544,36608,36800,36802,36864,
      36928,36929,36992,36993,37056,37058,37120,37184,37250,37248,37251,
      37313,37312,37315,37376,37377,37440,37504,37506,37508,37505,37509,
      37511,37510,37507,37569,37568,37570
    >>

=============================================================================
